---- MODULE Spec2Model ----
(***************************************************************************)
(* Model of the PIC24 programming/debug stack of pykitcommander:           *)
(*   - Gen4WrapperDebugger (mode state machine, flash access, executive    *)
(*     images) from common/gen4engineinterface.py,                         *)
(*   - ProgExecInterfacePic24 (PE protocol) from                           *)
(*     common/programexecinterfaceprovider.py,                             *)
(*   - the PIC24 codec from common/gen4scriptwrapper.py,                   *)
(*   - TransportProxy (batcher) from common/primitiveproxy.py.             *)
(* The target device and the transport are the environment: their replies  *)
(* are chosen nondeterministically in every call.                          *)
(***************************************************************************)
EXTENDS Integers, Sequences, FiniteSets, TLC

VARIABLES dbg, call, dev, tp, tcall, fn

vars == <<dbg, call, dev, tp, tcall, fn>>
dvars == <<dbg, call, dev>>
tvars == <<tp, tcall>>

(***************************************************************************)
(* Bounds of the model                                                     *)
(***************************************************************************)
\* fault points (device replies that can be bad) reachable by a fault in one call
MaxFaultPos == 6
\* largest number of 512-byte chunks in one caller-supplied flash read or write
MaxChunks == 2
\* capacity handed to TransportProxy.__init__
blocksize == 4
\* largest single block handed to send_block
MaxBlock == 5
\* send_block calls recorded between two syncs
MaxSends == 4
\* longest byte array handed to the codec
MaxCodecLen == 9
\* most instruction words asked for in one generated PE command
MaxInstr == 5
\* largest length field (in 16-bit words) of a PE response, besides one too long
MaxWords == 5
\* most payload bytes in a PE response
MaxPayload == 6
\* most unpacked bytes a caller expects from a PE response
MaxDataBytes == 8
\* longest debug-mode flash read, in full chunks
MaxDebugChunks == 3
\* most full pages in one double-buffered write
MaxPages == 4
\* longest data buffer of the tool
MaxBuffer == 4
\* most lines the firmware sends while the host synchronizes
MaxLines == 4
\* most calls made on one KitProgrammer
MaxCalls == 4
\* calls one invoked method makes on the primitive proxy
MaxOps == 5
\* invocations of the direct executer, one after the other
MaxInvokes == 2

(***************************************************************************)
(* Program constants                                                       *)
(***************************************************************************)
None == -1

PE_COMMAND_SCHECK == 0
PE_COMMAND_READP == 2
PE_COMMAND_PROGP == 5
PE_COMMAND_QVER == 11
DE_COMMAND == 49
DE_COMMAND_DATA_ONLY == 53
PE_STATUS_PASS == 1
PE_STATUS_FAIL == 2
PE_STATUS_NACK == 3

FLASH_WRITE_BYTES_PER_PAGE == 512
CONFIG_START_ADDRESS_BYTE == 179712
ATI_CHUNK_SIZE == 512
overlapped_usb_access == FALSE

NoExc == "none"

(***************************************************************************)
(* Sequence helpers                                                        *)
(***************************************************************************)
Fill(n, v) == [i \in 1..n |-> v]

Slice(s, from, to) == [i \in 1..(to - from + 1) |-> s[from + i - 1]]

Min(a, b) == IF a < b THEN a ELSE b

(***************************************************************************)
(* PIC24 codec                                                             *)
(***************************************************************************)
\* while len(data) % 8: data.append(0)
PadZero(data, m) == data \o Fill((m - (Len(data) % m)) % m, 0)

\* a compaction that keeps the bytes of a group in their order
pic24_compact_in_order(data) ==
    LET d == PadZero(data, 8)
        Pick(k) == CASE k = 0 -> 0 [] k = 1 -> 1 [] k = 2 -> 2
                     [] k = 3 -> 4 [] k = 4 -> 5 [] OTHER -> 6
    IN  [j \in 1..((Len(d) \div 8) * 6) |->
            d[((j - 1) \div 6) * 8 + Pick((j - 1) % 6) + 1]]

pic24_compact(data) ==
    LET d == PadZero(data, 8)
        Pick(k) == CASE k = 0 -> 0 [] k = 1 -> 1 [] k = 2 -> 2
                     [] k = 3 -> 6 [] k = 4 -> 4 [] OTHER -> 5
    IN  [j \in 1..((Len(d) \div 8) * 6) |->
            d[((j - 1) \div 6) * 8 + Pick((j - 1) % 6) + 1]]

\* an expansion that takes the bytes of a frame in their order
pic24_decompact_in_order(data) ==
    LET d == PadZero(data, 6)
        Pick(k) == CASE k = 0 -> 0 [] k = 1 -> 1 [] k = 2 -> 2
                     [] k = 4 -> 3 [] k = 5 -> 4 [] OTHER -> 5
    IN  [j \in 1..((Len(d) \div 6) * 8) |->
            IF (j - 1) % 8 \in {3, 7} THEN 0
            ELSE d[((j - 1) \div 8) * 6 + Pick((j - 1) % 8) + 1]]

pic24_decompact(data) ==
    LET d == PadZero(data, 6)
        Pick(k) == CASE k = 0 -> 0 [] k = 1 -> 1 [] k = 2 -> 2
                     [] k = 4 -> 4 [] k = 5 -> 5 [] OTHER -> 3
    IN  [j \in 1..((Len(d) \div 6) * 8) |->
            IF (j - 1) % 8 \in {3, 7} THEN 0
            ELSE d[((j - 1) \div 8) * 6 + Pick((j - 1) % 8) + 1]]

(***************************************************************************)
(* Programming Executive protocol (ProgExecInterfacePic24)                 *)
(***************************************************************************)
PEResult(e, d) == [exc |-> e, data |-> d, msg |-> ""]

\* raise PrimitiveException(msg)
PERaise(msg) == [exc |-> "PrimitiveException", data |-> <<>>, msg |-> msg]

\* primitives a PE command sequence is made of
SendWord(v) == [p |-> "send_word", v |-> v]

SendWordBuf == [p |-> "send_word_buf", v |-> 0]

DelayUs(us) == [p |-> "delay_us", v |-> us]

Handshake == [p |-> "handshake", v |-> 0]

ReceiveWord == [p |-> "receive_word", v |-> 0]

_pe_command(command, length) == ((command * 4096) % 65536) + (length % 4096)

_sanity_check_proxy_command ==
    PEResult(NoExc, <<SendWord(_pe_command(PE_COMMAND_SCHECK, 1)), DelayUs(12), Handshake,
                      ReceiveWord, ReceiveWord>>)

_get_pe_version_proxy_command ==
    PEResult(NoExc, <<SendWord(_pe_command(PE_COMMAND_QVER, 1)), DelayUs(12), Handshake,
                      ReceiveWord, ReceiveWord>>)

\* _read_flash_proxy_command receiving the header before the handshake
_read_flash_proxy_command_early(byte_address, numbytes) ==
    LET word_address == byte_address \div 2
        num_instructionwords == numbytes \div 4
        num16bitwords == IF num_instructionwords % 2 = 1
                         THEN 2 + ((3 * (num_instructionwords - 1)) \div 2)
                         ELSE (3 * num_instructionwords) \div 2
    IN  IF num_instructionwords > 32768 THEN PEResult("PrimitiveException", <<>>)
        ELSE PEResult(NoExc,
                <<SendWord(_pe_command(PE_COMMAND_READP, 4)),
                  SendWord(num_instructionwords),
                  SendWord((word_address \div 65536) % 256),
                  SendWord(word_address % 65536),
                  DelayUs(12), ReceiveWord, ReceiveWord, Handshake>>
                \o [i \in 1..num16bitwords |-> ReceiveWord])

_read_flash_proxy_command(byte_address, numbytes) ==
    LET word_address == byte_address \div 2
        num_instructionwords == numbytes \div 4
        num16bitwords == IF num_instructionwords % 2 = 1
                         THEN 2 + ((3 * (num_instructionwords - 1)) \div 2)
                         ELSE (3 * num_instructionwords) \div 2
    IN  IF num_instructionwords > 32768 THEN PEResult("PrimitiveException", <<>>)
        ELSE PEResult(NoExc,
                <<SendWord(_pe_command(PE_COMMAND_READP, 4)),
                  SendWord(num_instructionwords),
                  SendWord((word_address \div 65536) % 256),
                  SendWord(word_address % 65536),
                  DelayUs(12), Handshake, ReceiveWord, ReceiveWord>>
                \o [i \in 1..num16bitwords |-> ReceiveWord])

_write_flash_page_proxy_command(byte_address, numbytes) ==
    LET word_address == byte_address \div 2
        num_instructionwords == numbytes \div 4
        num16bitwords == (3 * num_instructionwords) \div 2
    IN  PEResult(NoExc,
            <<SendWord(_pe_command(PE_COMMAND_PROGP, 3 + num16bitwords)),
              SendWord((word_address \div 65536) % 256),
              SendWord(word_address % 65536)>>
            \o [i \in 1..num16bitwords |-> SendWordBuf]
            \o <<DelayUs(12), Handshake, ReceiveWord, ReceiveWord>>)

\* _memory_read_bytes_expected_from_pe leaving out the upper word of the last instruction
_memory_read_bytes_expected_from_pe_short(read_numbytes) ==
    IF (read_numbytes \div 4) % 2 = 1
    THEN 6 + ((3 * (read_numbytes - 4)) \div 4)
    ELSE 4 + ((3 * read_numbytes) \div 4)

\* _memory_read_bytes_expected_from_pe counting every read as an even one
_memory_read_bytes_expected_from_pe_even(read_numbytes) ==
    4 + ((3 * read_numbytes) \div 4)

_memory_read_bytes_expected_from_pe(read_numbytes) ==
    IF (read_numbytes \div 4) % 2 = 1
    THEN 8 + ((3 * (read_numbytes - 4)) \div 4)
    ELSE 4 + ((3 * read_numbytes) \div 4)

\* _check_pe_response trusting the command echo
_check_pe_response_any_echo(cmd, databytes, response) ==
    LET status == (response[2] \div 16) % 16
        cmd_echo == response[2] % 16
        response_length == response[3] + 256 * response[4]
        response_length_bytes == response_length * 2
        response_length_expected == ((databytes * 3) \div 4) + 4
        decompacted_data == pic24_decompact(Slice(response, 5, Len(response)))
    IN  IF status = PE_STATUS_FAIL \/ status = PE_STATUS_NACK
        THEN PERaise("PE command faild")
        ELSE IF response_length_bytes # response_length_expected
        THEN PERaise("Unexpected number of bytes returned")
        ELSE IF Len(decompacted_data) # databytes
        THEN PERaise("Response did not contain the expected number of bytes")
        ELSE PEResult(NoExc, decompacted_data)

\* _check_pe_response accepting a NACK
_check_pe_response_nack_accepted(cmd, databytes, response) ==
    LET status == (response[2] \div 16) % 16
        cmd_echo == response[2] % 16
        response_length == response[3] + 256 * response[4]
        response_length_bytes == response_length * 2
        response_length_expected == ((databytes * 3) \div 4) + 4
        decompacted_data == pic24_decompact(Slice(response, 5, Len(response)))
    IN  IF status = PE_STATUS_FAIL
        THEN PERaise("PE command faild")
        ELSE IF cmd_echo # cmd
        THEN PERaise("Unexpected command echo in response")
        ELSE IF response_length_bytes # response_length_expected
        THEN PERaise("Unexpected number of bytes returned")
        ELSE IF Len(decompacted_data) # databytes
        THEN PERaise("Response did not contain the expected number of bytes")
        ELSE PEResult(NoExc, decompacted_data)

\* _check_pe_response trusting the length field
_check_pe_response_any_length(cmd, databytes, response) ==
    LET status == (response[2] \div 16) % 16
        cmd_echo == response[2] % 16
        response_length == response[3] + 256 * response[4]
        response_length_bytes == response_length * 2
        response_length_expected == ((databytes * 3) \div 4) + 4
        decompacted_data == pic24_decompact(Slice(response, 5, Len(response)))
    IN  IF status = PE_STATUS_FAIL \/ status = PE_STATUS_NACK
        THEN PERaise("PE command faild")
        ELSE IF cmd_echo # cmd
        THEN PERaise("Unexpected command echo in response")
        ELSE IF Len(decompacted_data) # databytes
        THEN PERaise("Response did not contain the expected number of bytes")
        ELSE PEResult(NoExc, decompacted_data)

_check_pe_response(cmd, databytes, response) ==
    LET status == (response[2] \div 16) % 16
        cmd_echo == response[2] % 16
        response_length == response[3] + 256 * response[4]
        response_length_bytes == response_length * 2
        response_length_expected == ((databytes * 3) \div 4) + 4
        decompacted_data == pic24_decompact(Slice(response, 5, Len(response)))
    IN  IF status = PE_STATUS_FAIL \/ status = PE_STATUS_NACK
        THEN PERaise("PE command faild")
        ELSE IF cmd_echo # cmd
        THEN PERaise("Unexpected command echo in response")
        ELSE IF response_length_bytes # response_length_expected
        THEN PERaise("Unexpected number of bytes returned")
        ELSE IF Len(decompacted_data) # databytes
        THEN PERaise("Response did not contain the expected number of bytes")
        ELSE PEResult(NoExc, decompacted_data)

(***************************************************************************)
(* The call context: the debugger object's fields, threaded through the    *)
(* nested method calls of one API call together with what the call has     *)
(* sent so far (log), the exception in flight (exc) and the environment's  *)
(* choices for this call (fault_at, fault_kind, target_pe, write_ok and    *)
(* flash, the content of the target's executive flash pages).              *)
(***************************************************************************)
Raise(s, e) == [s EXCEPT !.exc = e]

LogEntry(s, scr, addr, n) ==
    [scr |-> scr, tmod |-> s.in_tmod, pe |-> s.in_tmod_pe, use_pe |-> s.use_pe,
     addr |-> addr, n |-> n]

\* one script or primitive block handed to the controller for execution
Send(s, scr, addr, n) == [s EXCEPT !.log = Append(s.log, LogEntry(s, scr, addr, n))]

\* the device reply now due is the one the environment makes bad
AtFault(s) == s.fp + 1 = s.fault_at

Pass(s) == [s EXCEPT !.fp = s.fp + 1]

\* the call has consulted the PE on the target
AskPE(s) == [s EXCEPT !.pe_asked = TRUE]

(***************************************************************************)
(* Environment: replies of the target                                      *)
(***************************************************************************)
GoodIdReply == <<0, 0, 11, 117>>

DeviceIdReply(s) ==
    IF AtFault(s)
    THEN (IF s.fault_kind = 1 THEN <<0, 0, 0, 0>> ELSE <<0, 0, 255, 63>>)
    ELSE GoodIdReply

PEHeader(first, status, cmd, words) ==
    <<first, status * 16 + cmd, words % 256, words \div 256>>

\* response packet of the PE on the target to command cmd carrying payload_len data bytes
PEReply(s, cmd, payload_len) ==
    IF "reply" \in DOMAIN s
    THEN s.reply
    ELSE IF s.target_pe = None
    THEN Fill(4 + payload_len, 0)
    ELSE IF AtFault(s)
    THEN PEHeader(1, IF s.fault_kind = 1 THEN PE_STATUS_FAIL ELSE PE_STATUS_NACK, cmd, 2)
            \o Fill(payload_len, 0)
    ELSE PEHeader(IF cmd = PE_COMMAND_QVER THEN s.target_pe ELSE 0, PE_STATUS_PASS, cmd,
                  (4 + payload_len) \div 2)
            \o Fill(payload_len, 255)

\* Flash of the target, tracked per executive page in wire (packed) form. A page is
\* kept without its trailing erased (0xFF) bytes, so <<>> is an erased page.
PackedOffset(byte_address) == (byte_address * 3) \div 4

TrimBlank(packed) ==
    LET t == packed \o <<>>
        used == {i \in 1..Len(t) : t[i] # 255}
    IN  IF used = {} THEN <<>>
        ELSE SubSeq(t, 1, CHOOSE i \in used : \A k \in used : k <= i)

TargetReadPacked(fl, byte_address, count) ==
    [j \in 1..count |->
        LET off == PackedOffset(byte_address) + j - 1
            hit == {p \in DOMAIN fl : PackedOffset(p) <= off /\ off < PackedOffset(p) + Len(fl[p])}
        IN  IF hit = {} THEN 255
            ELSE LET p == CHOOSE q \in hit : TRUE IN fl[p][off - PackedOffset(p) + 1]]

\* the read touches a tracked page
TargetTracks(fl, byte_address, count) ==
    \E p \in DOMAIN fl :
        /\ PackedOffset(p) < PackedOffset(byte_address) + count
        /\ PackedOffset(byte_address) < PackedOffset(p + FLASH_WRITE_BYTES_PER_PAGE)

TargetWritePacked(s, byte_address, packed) ==
    IF byte_address \in DOMAIN s.flash
    THEN [s EXCEPT !.flash[byte_address] =
                IF s.write_ok THEN TrimBlank(packed)
                ELSE TrimBlank(<<(packed[1] + 1) % 256>> \o Tail(packed \o <<>>)),
             !.wrote = TRUE]
    ELSE s

TargetErase(s, byte_address, numbytes) ==
    [s EXCEPT !.flash = [p \in DOMAIN s.flash |->
        IF p < byte_address + numbytes /\ p + FLASH_WRITE_BYTES_PER_PAGE > byte_address
        THEN <<>> ELSE s.flash[p]]]

(***************************************************************************)
(* Gen4WrapperDebugger: mode switching                                     *)
(***************************************************************************)
unpack_le32(b) == b[1] + 256 * b[2] + 65536 * b[3] + 16777216 * b[4]

\* exit_tmod clearing _in_tmod only
exit_tmod_keeps_pe(s) ==
    IF s.exc # NoExc THEN s
    ELSE IF ~s.in_tmod /\ ~s.in_tmod_pe THEN s
    ELSE [Send(s, "exit_tmod", 0, 0) EXCEPT !.in_tmod = FALSE]

exit_tmod(s) ==
    IF s.exc # NoExc THEN s
    ELSE IF ~s.in_tmod /\ ~s.in_tmod_pe THEN s
    ELSE [Send(s, "exit_tmod", 0, 0) EXCEPT !.in_tmod = FALSE, !.in_tmod_pe = FALSE]

enter_tmod(s) ==
    IF s.exc # NoExc THEN s
    ELSE IF s.in_tmod THEN s
    ELSE LET s1 == IF s.in_tmod_pe THEN exit_tmod(s) ELSE s
             s2 == Send(Send(s1, "set_speed", 0, 0), "enter_tmod", 0, 0)
             result == DeviceIdReply(s2)
             s3 == Pass(Send(s2, "read_id", 0, 4))
             device_id == unpack_le32(result) \div 65536
         IN  IF device_id % 65536 = 0 \/ device_id % 65536 = 16383
             THEN Raise(s3, "Exception")
             ELSE [s3 EXCEPT !.in_tmod = TRUE]

\* returns the PE version in field ret
check_pe_connection_by_proxy(s) ==
    LET sanity_check_response == PEReply(s, PE_COMMAND_SCHECK, 0)
        s1 == AskPE(Pass(Send(s, "pe_scheck", 0, 4)))
        c1 == _check_pe_response(PE_COMMAND_SCHECK, 0, sanity_check_response)
        pe_version_response == PEReply(s1, PE_COMMAND_QVER, 0)
        s2 == Pass(Send(s1, "pe_qver", 0, 4))
        c2 == _check_pe_response(PE_COMMAND_QVER, 0, pe_version_response)
    IN  IF c1.exc # NoExc THEN Raise(s1, c1.exc)
        ELSE IF c2.exc # NoExc THEN Raise(s2, c2.exc)
        ELSE [s2 EXCEPT !.ret = pe_version_response[1]]

\* enter_tmod_pe that does not leave TMOD first
enter_tmod_pe_direct(s) ==
    IF s.exc # NoExc THEN s
    ELSE IF s.in_tmod_pe THEN [s EXCEPT !.ret = s.current_pe_version]
    ELSE LET s2 == Send(Send(s, "set_speed_pe", 0, 0), "enter_tmod_pe", 0, 0)
             s3 == check_pe_connection_by_proxy(s2)
         IN  IF s3.exc # NoExc THEN s3
             ELSE [s3 EXCEPT !.current_pe_version = s3.ret, !.in_tmod_pe = TRUE]

\* returns the PE version in field ret
enter_tmod_pe(s) ==
    IF s.exc # NoExc THEN s
    ELSE IF s.in_tmod_pe THEN [s EXCEPT !.ret = s.current_pe_version]
    ELSE LET s1 == IF s.in_tmod THEN exit_tmod(s) ELSE s
             s2 == Send(Send(s1, "set_speed_pe", 0, 0), "enter_tmod_pe", 0, 0)
             s3 == check_pe_connection_by_proxy(s2)
         IN  IF s3.exc # NoExc THEN s3
             ELSE [s3 EXCEPT !.current_pe_version = s3.ret, !.in_tmod_pe = TRUE]

(***************************************************************************)
(* Gen4WrapperDebugger: flash read                                         *)
(***************************************************************************)
\* DeviceDefinition.read_flash: packed byte count the read script transfers
read_flash_packed_count(numbytes) ==
    LET packed == (numbytes * 3) \div 4
    IN  IF packed % 12 > 0 THEN packed + (12 - (packed % 12)) ELSE packed

read_flash_by_proxy(s, byte_address, numbytes) ==
    LET bytes_from_tool == _memory_read_bytes_expected_from_pe(numbytes)
        response == PEReply(s, PE_COMMAND_READP, bytes_from_tool - 4)
        s1 == AskPE(Pass(Send(s, "pe_readp", byte_address, numbytes)))
        c == _check_pe_response(PE_COMMAND_READP, numbytes, response)
    IN  IF numbytes \div 4 > 32768 THEN Raise(s, "PrimitiveException")
        ELSE IF c.exc # NoExc THEN Raise(s1, c.exc)
        ELSE [s1 EXCEPT !.data = c.data]

\* returns the chunk in field data
_read_flash_block(s, byte_address, numbytes) ==
    IF s.use_pe
    THEN read_flash_by_proxy(s, byte_address, numbytes)
    ELSE LET count == read_flash_packed_count(numbytes)
         IN  [Send(s, "read_flash", byte_address, numbytes)
                 EXCEPT !.data = pic24_decompact(TargetReadPacked(s.flash, byte_address, count)),
                        !.peeked = s.peeked \/ TargetTracks(s.flash, byte_address, count)]

RECURSIVE read_flash_loop(_, _, _, _, _)
read_flash_loop(s, byte_address, numbytes, chunk_size, result) ==
    IF s.exc # NoExc THEN s
    ELSE IF numbytes > 0
    THEN LET chunk_size_bytes == IF chunk_size > numbytes THEN numbytes ELSE chunk_size
             s1 == _read_flash_block(s, byte_address, chunk_size_bytes)
         IN  IF s1.exc # NoExc THEN s1
             ELSE read_flash_loop(s1, byte_address + chunk_size_bytes,
                                  numbytes - chunk_size_bytes, chunk_size_bytes,
                                  result \o s1.data)
    ELSE [s EXCEPT !.data = result]

\* read_flash_memory that does not enter TMOD-PE before it asks the PE
read_flash_memory_no_enter(s, byte_address, numbytes) ==
    IF s.exc # NoExc THEN s
    ELSE LET s2 == read_flash_loop(s, byte_address, numbytes, ATI_CHUNK_SIZE, <<>>)
         IN  IF s2.exc # NoExc THEN s2
             ELSE IF s2.use_pe
             THEN [enter_tmod(s2) EXCEPT !.data = s2.data]
             ELSE s2

\* returns the bytes read in field data
read_flash_memory(s, byte_address, numbytes) ==
    IF s.exc # NoExc THEN s
    ELSE LET s1 == IF s.use_pe THEN enter_tmod_pe(s) ELSE s
             s2 == read_flash_loop(s1, byte_address, numbytes, ATI_CHUNK_SIZE, <<>>)
         IN  IF s2.exc # NoExc THEN s2
             ELSE IF s2.use_pe
             THEN [enter_tmod(s2) EXCEPT !.data = s2.data]
             ELSE s2

\* returns the verdict in field status
_verify_flash_block(s, byte_address, data) ==
    IF s.exc # NoExc THEN s
    ELSE LET s1 == read_flash_memory(s, byte_address, Len(data))
             read_back == s1.data
         IN  IF s1.exc # NoExc THEN s1
             ELSE IF Len(read_back) < Len(data) THEN Raise(s1, "IndexError")
             ELSE LET numerrors == Cardinality({i \in 1..Len(data) : data[i] # read_back[i]})
                  IN  [s1 EXCEPT !.status = (numerrors = 0),
                                 !.verifies = Append(s1.verifies, numerrors = 0)]

(***************************************************************************)
(* Gen4WrapperDebugger: flash write                                        *)
(***************************************************************************)
\* is_blank finding something to write in every chunk
is_blank_never(data) == FALSE

is_blank(data) == \A d \in 1..Len(data) : data[d] = 255

\* pad handing the chunk on as it came
pad_nothing(data, pagesize) == data

pad(data, pagesize) == data \o Fill((pagesize - (Len(data) % pagesize)) % pagesize, 255)

write_flash_page_by_proxy(s, byte_address, data) ==
    LET packed_data == pic24_compact(data)
        response == PEReply(s, PE_COMMAND_PROGP, 0)
        s1 == AskPE(Pass(Send(s, "pe_progp", byte_address, Len(data))))
        c == _check_pe_response(PE_COMMAND_PROGP, 0, response)
    IN  IF c.exc # NoExc THEN Raise(s1, c.exc) ELSE s1

\* device_proxy.invoke_write of DeviceDefinition.write_flash_page (data is compacted first)
raw_write_flash_page(s, byte_address, data) ==
    TargetWritePacked(Send(s, "write_flash_page", byte_address, Len(data)),
                      byte_address, pic24_compact(data))

\* _write_flash_chunk without the switch to raw TMOD for the configuration region
_write_flash_chunk_pe_only(s, byte_address, data) ==
    IF s.exc # NoExc THEN s
    ELSE IF s.use_pe
    THEN write_flash_page_by_proxy(s, byte_address, data)
    ELSE raw_write_flash_page(s, byte_address, data)

_write_flash_chunk(s, byte_address, data) ==
    IF s.exc # NoExc THEN s
    ELSE LET use_pe_original == s.use_pe
             s1 == IF s.use_pe /\ (byte_address + Len(data)) > CONFIG_START_ADDRESS_BYTE
                   THEN enter_tmod(exit_tmod([s EXCEPT !.use_pe = FALSE]))
                   ELSE s
         IN  IF s1.exc # NoExc THEN s1
             ELSE IF s1.use_pe
             THEN write_flash_page_by_proxy(s1, byte_address, data)
             ELSE LET s2 == raw_write_flash_page(s1, byte_address, data)
                  IN  IF use_pe_original
                      THEN enter_tmod_pe(exit_tmod([s2 EXCEPT !.use_pe = use_pe_original]))
                      ELSE s2

RECURSIVE write_flash_chunks(_, _, _, _, _, _)
write_flash_chunks(s, byte_address, data, i, chunksize, pagesize) ==
    IF s.exc # NoExc THEN s
    ELSE IF i <= Len(data)
    THEN LET chunk == Slice(data, i, Min(i + chunksize - 1, Len(data)))
             s1 == IF ~is_blank(chunk)
                   THEN _write_flash_chunk(s, byte_address, pad(chunk, pagesize))
                   ELSE s
         IN  write_flash_chunks(s1, byte_address + chunksize, data, i + chunksize,
                                chunksize, pagesize)
    ELSE s

_write_flash_block(s, byte_address, data) ==
    LET pagesize == FLASH_WRITE_BYTES_PER_PAGE
        chunksize == ATI_CHUNK_SIZE - (ATI_CHUNK_SIZE % pagesize)
    IN  write_flash_chunks(s, byte_address, data, 1, chunksize, pagesize)

\* write_flash_memory that stays in TMOD-PE when the write is done
write_flash_memory_stays_in_pe(s, address, data) ==
    LET s1 == IF s.use_pe THEN enter_tmod_pe(s) ELSE s
    IN  IF s1.exc # NoExc THEN s1
        ELSE IF overlapped_usb_access THEN Raise(s1, "AttributeError")
        ELSE _write_flash_block(s1, address, data)

write_flash_memory(s, address, data) ==
    LET s1 == IF s.use_pe THEN enter_tmod_pe(s) ELSE s
        s2 == IF s1.exc # NoExc THEN s1
              ELSE IF overlapped_usb_access THEN Raise(s1, "AttributeError")
              ELSE _write_flash_block(s1, address, data)
    IN  IF s2.exc # NoExc THEN s2
        ELSE IF s2.use_pe THEN enter_tmod(s2) ELSE s2

\* erase_pe_memory and erase_de_memory run the same script
erase_testmem_range(s, byte_address, numbytes) ==
    IF s.exc # NoExc THEN s
    ELSE TargetErase(Send(s, "erase_testmem_range", byte_address, numbytes),
                     byte_address, numbytes)

erase_pe_memory(s, byte_address, numbytes) == erase_testmem_range(s, byte_address, numbytes)

erase_de_memory(s, byte_address, numbytes) == erase_testmem_range(s, byte_address, numbytes)

write_pe_memory(s, byte_address, data) ==
    IF s.exc # NoExc THEN s
    ELSE _write_flash_block(s, byte_address, pad(data, FLASH_WRITE_BYTES_PER_PAGE))

write_de_memory(s, byte_address, data) ==
    IF s.exc # NoExc THEN s
    ELSE _write_flash_block(s, byte_address, data)

(***************************************************************************)
(* Gen4WrapperDebugger: sessions                                           *)
(***************************************************************************)
\* start_programming_operation: check the PE image, erase + rewrite + re-verify on mismatch
program_pe_image(s) ==
    LET s1 == _verify_flash_block(s, s.program_exec_address, s.program_exec_data)
    IN  IF s1.exc # NoExc \/ s1.status THEN s1
        ELSE _verify_flash_block(
                write_pe_memory(
                    erase_pe_memory(s1, s.program_exec_address, Len(s.program_exec_data)),
                    s.program_exec_address, s.program_exec_data),
                s.program_exec_address, s.program_exec_data)

\* start_programming_operation that relies on the PE image whatever the re-verify says
start_programming_operation_trusting(s0, program_pe) ==
    LET s == [s0 EXCEPT !.use_pe = FALSE]
        probe == ~program_pe \/ s.program_exec_version # None
        t == enter_tmod_pe(s)
        contacted == probe /\ t.exc = NoExc
        pe_version_current == IF contacted THEN t.ret ELSE None
        pe_version_match == contacted /\ s.program_exec_version # None
                            /\ pe_version_current # None
                            /\ (pe_version_current % 256) = (s.program_exec_version % 256)
        s1 == IF ~probe THEN s
              ELSE [t EXCEPT !.exc = NoExc, !.use_pe = pe_version_match]
        s2 == IF program_pe /\ ~pe_version_match
              THEN IF s1.program_exec_address = None THEN s1
                   ELSE LET x == exit_tmod(program_pe_image(enter_tmod(s1)))
                        IN  IF x.exc # NoExc THEN x ELSE [x EXCEPT !.use_pe = TRUE]
              ELSE IF s1.program_exec_version = None
              THEN IF pe_version_current # None
                   THEN [s1 EXCEPT !.use_pe = TRUE]
                   ELSE s1
              ELSE s1
    IN  enter_tmod(s2)

\* start_programming_operation that uses a PE only on a version match
start_programming_operation_match_only(s0, program_pe) ==
    LET s == [s0 EXCEPT !.use_pe = FALSE]
        probe == ~program_pe \/ s.program_exec_version # None
        t == enter_tmod_pe(s)
        contacted == probe /\ t.exc = NoExc
        pe_version_current == IF contacted THEN t.ret ELSE None
        pe_version_match == contacted /\ s.program_exec_version # None
                            /\ pe_version_current # None
                            /\ (pe_version_current % 256) = (s.program_exec_version % 256)
        s1 == IF ~probe THEN s
              ELSE [t EXCEPT !.exc = NoExc, !.use_pe = pe_version_match]
        s2 == IF program_pe /\ ~pe_version_match
              THEN IF s1.program_exec_address = None THEN s1
                   ELSE LET v == program_pe_image(enter_tmod(s1))
                            x == exit_tmod(v)
                        IN  IF x.exc # NoExc THEN x
                            ELSE IF ~x.status
                            THEN Raise([x EXCEPT !.use_pe = FALSE], "Exception")
                            ELSE [x EXCEPT !.use_pe = TRUE]
              ELSE s1
    IN  enter_tmod(s2)

start_programming_operation(s0, program_pe) ==
    LET s == [s0 EXCEPT !.use_pe = FALSE]
        probe == ~program_pe \/ s.program_exec_version # None
        t == enter_tmod_pe(s)
        contacted == probe /\ t.exc = NoExc
        pe_version_current == IF contacted THEN t.ret ELSE None
        pe_version_match == contacted /\ s.program_exec_version # None
                            /\ pe_version_current # None
                            /\ (pe_version_current % 256) = (s.program_exec_version % 256)
        \* the bare except swallows whatever enter_tmod_pe raised
        s1 == IF ~probe THEN s
              ELSE [t EXCEPT !.exc = NoExc, !.use_pe = pe_version_match]
        s2 == IF program_pe /\ ~pe_version_match
              THEN IF s1.program_exec_address = None THEN s1
                   ELSE LET v == program_pe_image(enter_tmod(s1))
                            x == exit_tmod(v)
                        IN  IF x.exc # NoExc THEN x
                            ELSE IF ~x.status
                            THEN Raise([x EXCEPT !.use_pe = FALSE], "Exception")
                            ELSE [x EXCEPT !.use_pe = TRUE]
              ELSE IF s1.program_exec_version = None
              THEN IF pe_version_current # None
                   THEN [s1 EXCEPT !.use_pe = TRUE]
                   ELSE s1
              ELSE s1
    IN  enter_tmod(s2)

end_of_operations(s) == exit_tmod(s)

debug_read_de_version(s) ==
    IF s.exc # NoExc THEN s
    ELSE LET s1 == Pass(Send(s, "de_read_version", 0, 4))
         IN  IF AtFault(s) THEN Raise(s1, "IndexError") ELSE s1

\* raw response of the tool to a DE command
DEReply(s) == IF "reply" \in DOMAIN s THEN s.reply ELSE <<DE_COMMAND, 0, 0, 0>>

_check_de_response(s, result) ==
    IF Len(result) = 0 THEN Raise(s, "IndexError")
    ELSE IF result[1] = DE_COMMAND \/ result[1] = DE_COMMAND_DATA_ONLY
    THEN IF Len(result) < 4 THEN Raise(s, "IndexError")
         ELSE IF result[2] \in {129, 130, 131, 132, 133} THEN Raise(s, "Exception")
         ELSE s
    ELSE s

debug_write_memory(s, address, data, length) ==
    LET s1 == Send(s, "write_ram", address, length)
    IN  _check_de_response(s1, DEReply(s1))

debug_write_emulation(s, address, data, length) ==
    LET s1 == Send(s, "write_emulation", address, length)
    IN  _check_de_response(s1, DEReply(s1))

\* run recording the run state before the response is checked
run_unchecked(s) ==
    IF s.is_running THEN s
    ELSE LET s1 == [Send(s, "run", 0, 0) EXCEPT !.is_running = TRUE]
         IN  _check_de_response(s1, DEReply(s1))

run(s) ==
    IF s.is_running THEN s
    ELSE LET s1 == Send(s, "run", 0, 0)
             s2 == _check_de_response(s1, DEReply(s1))
         IN  IF s2.exc # NoExc THEN s2 ELSE [s2 EXCEPT !.is_running = TRUE]

halt(s) ==
    IF ~s.is_running THEN s
    ELSE LET s1 == Send(s, "halt", 0, 0)
             s2 == _check_de_response(s1, DEReply(s1))
         IN  IF s2.exc # NoExc THEN s2 ELSE [s2 EXCEPT !.is_running = FALSE]

step(s) ==
    IF s.is_running THEN s
    ELSE LET s1 == Send(s, "step", 0, 0)
         IN  _check_de_response(s1, DEReply(s1))

de_read_flash_pack_size == 12

\* temp_chunk_size_bytes taking the full chunk wherever the read stands
temp_chunk_size_bytes_unclipped(byte_address, chunk_size_bytes, numbytes_actual) ==
    IF chunk_size_bytes > numbytes_actual THEN numbytes_actual ELSE chunk_size_bytes

\* size of the next chunk debug_read_flash requests, in packed bytes
temp_chunk_size_bytes(byte_address, chunk_size_bytes, numbytes_actual) ==
    LET clipped == IF byte_address < 131072
                       /\ byte_address + ((chunk_size_bytes * 4) \div 3) >= 131072
                   THEN ((131072 - byte_address) * 3) \div 4
                   ELSE chunk_size_bytes
    IN  IF clipped > numbytes_actual THEN numbytes_actual ELSE clipped

_de_command_4_2(param1, param2) ==
    <<param1 % 256, (param1 \div 256) % 256, (param1 \div 65536) % 256,
      (param1 \div 16777216) % 256, param2 % 256, (param2 \div 256) % 256>>

de_command_memory32_read(address, length) == _de_command_4_2(address, length)

de_command_read_flash(address, numbytes) ==
    de_command_memory32_read(address, numbytes \div de_read_flash_pack_size)

RECURSIVE debug_read_flash_loop(_, _, _, _)
\* the while loop of debug_read_flash; the data gathered is in field data, the DE
\* commands written in field cmds
debug_read_flash_loop(s, byte_address, numbytes_actual, chunk_size_bytes) ==
    IF numbytes_actual <= 0 THEN s
    ELSE LET size == temp_chunk_size_bytes(byte_address, chunk_size_bytes, numbytes_actual)
             de_command == de_command_read_flash(byte_address \div 2, size)
             s1 == [Pass(Send(s, "debug_read_flash", byte_address, size))
                        EXCEPT !.cmds = Append(s.cmds, de_command)]
             chunk == IF AtFault(s) THEN <<>> ELSE Fill(size, 255)
         IN  IF Len(chunk) = 0 THEN s1
             ELSE debug_read_flash_loop([s1 EXCEPT !.data = s1.data \o chunk],
                                        byte_address + ((size * 4) \div 3),
                                        numbytes_actual - size, chunk_size_bytes)

debug_read_flash(s, byte_address, numbytes) ==
    debug_read_flash_loop([s EXCEPT !.data = <<>>], byte_address, (numbytes * 3) \div 4,
                          512 - (512 % de_read_flash_pack_size))

\* the DE image erased and rewritten without a look at what the region holds
program_de_image_unconditional(s) ==
    _verify_flash_block(
        write_de_memory(
            erase_de_memory(s, s.debug_exec_address, Len(s.debug_exec_data)),
            s.debug_exec_address, s.debug_exec_data),
        s.debug_exec_address, s.debug_exec_data)

\* init_debug_session: check the DE image, erase + rewrite + re-verify on mismatch
program_de_image(s) ==
    LET s1 == _verify_flash_block(s, s.debug_exec_address, s.debug_exec_data)
    IN  IF s1.exc # NoExc \/ s1.status THEN s1
        ELSE _verify_flash_block(
                write_de_memory(
                    erase_de_memory(s1, s.debug_exec_address, Len(s.debug_exec_data)),
                    s.debug_exec_address, s.debug_exec_data),
                s.debug_exec_address, s.debug_exec_data)

\* init_debug_session that launches the debug session whatever the re-verify says
init_debug_session_no_raise(s, program_de) ==
    IF s.exc # NoExc THEN s ELSE
    LET use_pe_original == s.use_pe
        s1 == IF program_de /\ s.debug_exec_address # None
              THEN LET x == exit_tmod(program_de_image(enter_tmod([s EXCEPT !.use_pe = FALSE])))
                   IN  IF x.exc # NoExc THEN x ELSE [x EXCEPT !.use_pe = use_pe_original]
              ELSE s
        s2 == IF s1.exc # NoExc THEN s1
              ELSE debug_read_de_version(Send(s1, "enter_debug", 0, 0))
    IN  IF s2.exc # NoExc THEN s2
        ELSE [s2 EXCEPT !.is_running = FALSE, !.in_tmod = FALSE, !.in_tmod_pe = FALSE]

init_debug_session(s, program_de) ==
    IF s.exc # NoExc THEN s ELSE
    LET use_pe_original == s.use_pe
        s1 == IF program_de /\ s.debug_exec_address # None
              THEN LET v == program_de_image(enter_tmod([s EXCEPT !.use_pe = FALSE]))
                       x == exit_tmod(v)
                   IN  IF x.exc # NoExc THEN x
                       ELSE IF ~x.status
                       THEN Raise([x EXCEPT !.use_pe = use_pe_original], "Exception")
                       ELSE [x EXCEPT !.use_pe = use_pe_original]
              ELSE s
        s2 == IF s1.exc # NoExc THEN s1
              ELSE debug_read_de_version(Send(s1, "enter_debug", 0, 0))
    IN  IF s2.exc # NoExc THEN s2
        ELSE [s2 EXCEPT !.is_running = FALSE, !.in_tmod = FALSE, !.in_tmod_pe = FALSE]

reset_target(s) ==
    IF s.is_running THEN s
    ELSE init_debug_session(exit_tmod(enter_tmod(s)), FALSE)

(***************************************************************************)
(* Inputs                                                                  *)
(***************************************************************************)
ExecImage == <<18, 52, 86, 0, 120, 154, 188, 0>>

PEAddresses == {16777216}

DEAddresses == {16781312}

DeclaredVersions == {None, 38, 39}

TargetPEs == {None, 38}

ReadAddresses == {0}

ReadLengths == {4, 8} \cup {(k - 1) * ATI_CHUNK_SIZE + 8 : k \in 2..MaxChunks}

\* a page that ends at the start of the configuration region, and one that crosses it
WriteAddresses ==
    {CONFIG_START_ADDRESS_BYTE - FLASH_WRITE_BYTES_PER_PAGE,
     CONFIG_START_ADDRESS_BYTE - (FLASH_WRITE_BYTES_PER_PAGE \div 2)}

WriteData ==
    {Fill(8, 0), Fill(8, 255)}
        \cup {Fill((k - 1) * ATI_CHUNK_SIZE + 8, 0) : k \in 2..MaxChunks}
        \cup {Fill((k - 1) * ATI_CHUNK_SIZE, 255) \o Fill(8, 0) : k \in 2..MaxChunks}
        \cup {Fill(FLASH_WRITE_BYTES_PER_PAGE, 255),
              Fill(FLASH_WRITE_BYTES_PER_PAGE - 1, 255) \o <<254>>,
              <<0>> \o Fill(FLASH_WRITE_BYTES_PER_PAGE - 1, 255)}

\* what the executive pages of the target hold when a call begins
FlashStates == {"erased", "image"}

TargetFlash(kind) ==
    [p \in PEAddresses \cup DEAddresses |->
        IF kind = "image" THEN TrimBlank(pic24_compact(ExecImage)) ELSE <<>>]

Env(k, j, t, w, f) ==
    [fault_at |-> k, fault_kind |-> j, target_pe |-> t, write_ok |-> w, flash0 |-> f]

\* a tool whose next PE response is the packet r
Replying(r) == Env(0, 1, 38, TRUE, "erased") @@ [reply |-> r]

NoArg == [b |-> FALSE, addr |-> 0, n |-> 0]

(***************************************************************************)
(* State, and the frame of one API call                                    *)
(***************************************************************************)
\* CmsisAtiPicDebugger.__init__ and Gen4WrapperDebugger.__init__
InitDbg ==
    [in_tmod |-> FALSE, in_tmod_pe |-> FALSE, is_running |-> FALSE,
     current_pe_version |-> 0, use_pe |-> FALSE,
     debug_exec_address |-> None, debug_exec_data |-> <<>>,
     program_exec_address |-> None, program_exec_data |-> <<>>,
     program_exec_version |-> None]

\* what the target has seen: the mode its last mode script left it in
DevAfter(mode, scr) ==
    CASE scr = "enter_tmod" -> "tmod"
      [] scr = "enter_tmod_pe" -> "tmod_pe"
      [] scr = "exit_tmod" -> "idle"
      [] scr = "enter_debug" -> "debug"
      [] OTHER -> mode

RECURSIVE DevFold(_, _, _)
DevFold(mode, log, i) ==
    IF i > Len(log) THEN mode ELSE DevFold(DevAfter(mode, log[i].scr), log, i + 1)

Begin(e) ==
    dbg @@ e @@ [log |-> <<>>, cmds |-> <<>>, exc |-> NoExc, fp |-> 0, verifies |-> <<>>,
                 data |-> <<>>,
                 ret |-> None, status |-> TRUE, wrote |-> FALSE, peeked |-> FALSE,
                 pe_asked |-> FALSE, flash |-> TargetFlash(e.flash0)]

\* no call is in progress or awaiting its caller
NoCall ==
    [op |-> "none", arg |-> NoArg, log |-> <<>>, exc |-> NoExc, verifies |-> <<>>,
     pre |-> [in_tmod |-> FALSE, in_tmod_pe |-> FALSE, use_pe |-> FALSE,
              current_pe_version |-> 0, dev |-> "idle"],
     target_pe |-> None]

Pre == [in_tmod |-> dbg.in_tmod, in_tmod_pe |-> dbg.in_tmod_pe, use_pe |-> dbg.use_pe,
        current_pe_version |-> dbg.current_pe_version, dev |-> dev]

Commit(op, arg, t, s) ==
    /\ dbg' = [in_tmod |-> s.in_tmod, in_tmod_pe |-> s.in_tmod_pe,
               is_running |-> s.is_running,
               current_pe_version |-> s.current_pe_version, use_pe |-> s.use_pe,
               debug_exec_address |-> s.debug_exec_address,
               debug_exec_data |-> s.debug_exec_data,
               program_exec_address |-> s.program_exec_address,
               program_exec_data |-> s.program_exec_data,
               program_exec_version |-> s.program_exec_version]
    /\ dev' = DevFold(dev, s.log, 1)
    /\ call' = [op |-> op, arg |-> arg, log |-> s.log, exc |-> s.exc,
                verifies |-> s.verifies, pre |-> Pre, target_pe |-> t]
    /\ UNCHANGED <<tvars, fn>>

\* One API call F under every choice of the environment that the call consumes:
\* a reply is made bad only at a point the call reaches, the flash content and
\* the write outcome are chosen only if the call reads or writes a tracked page,
\* and the PE on the target only if the call asks it (or keep_target is set).
Call(op, arg, keep_target, F(_)) ==
    \E t \in TargetPEs :
        LET p0 == F(Begin(Env(0, 1, t, TRUE, "erased")))
        IN  /\ keep_target \/ t = None \/ p0.pe_asked
            /\ \E f \in (IF p0.peeked THEN FlashStates ELSE {"erased"}) :
                LET p1 == IF f = "erased" THEN p0 ELSE F(Begin(Env(0, 1, t, TRUE, f)))
                IN  \E k \in 0..Min(p1.fp, MaxFaultPos),
                       w \in (IF p1.wrote THEN BOOLEAN ELSE {TRUE}) :
                        \E j \in (IF k = 0 THEN {1} ELSE {1, 2}) :
                            LET s == IF k = 0 /\ w THEN p1 ELSE F(Begin(Env(k, j, t, w, f)))
                            IN  /\ w \/ s.wrote
                                /\ Commit(op, arg, IF keep_target THEN t ELSE None, s)

(***************************************************************************)
(* API calls of Gen4WrapperDebugger                                        *)
(***************************************************************************)
Setter ==
    /\ call = NoCall
    /\ UNCHANGED <<call, dev, tp, tcall, fn>>

SetProgramExec ==
    \E a \in PEAddresses, v \in DeclaredVersions :
        /\ dbg' = [dbg EXCEPT !.program_exec_address = a, !.program_exec_data = ExecImage,
                              !.program_exec_version = v]
        /\ Setter

SetDebugExec ==
    \E a \in DEAddresses :
        /\ dbg' = [dbg EXCEPT !.debug_exec_address = a, !.debug_exec_data = ExecImage]
        /\ Setter

\* Each action takes the method it calls as its parameter; Next passes the method.
EnterTmod(F(_)) ==
    /\ call = NoCall
    /\ Call("enter_tmod", NoArg, FALSE, F)

EnterTmodPe(F(_)) ==
    /\ call = NoCall
    /\ Call("enter_tmod_pe", NoArg, FALSE, F)

ExitTmod(F(_)) ==
    /\ call = NoCall
    /\ Call("exit_tmod", NoArg, FALSE, F)

StartProgrammingOperation(F(_, _)) ==
    /\ call = NoCall
    /\ \E program_pe \in BOOLEAN :
        Call("start_programming_operation", [NoArg EXCEPT !.b = program_pe], TRUE,
             LAMBDA s : F(s, program_pe))

EndOfOperations(F(_)) ==
    /\ call = NoCall
    /\ Call("end_of_operations", NoArg, FALSE, F)

ReadFlashMemory(F(_, _, _)) ==
    /\ call = NoCall
    /\ \E a \in ReadAddresses, n \in ReadLengths :
        Call("read_flash_memory", [NoArg EXCEPT !.addr = a, !.n = n], FALSE,
             LAMBDA s : F(s, a, n))

WriteFlashMemory(F(_, _, _)) ==
    /\ call = NoCall
    /\ \E a \in WriteAddresses, d \in WriteData :
        Call("write_flash_memory", [b |-> (d = Fill(Len(d), 255)), addr |-> a, n |-> Len(d)], FALSE,
             LAMBDA s : F(s, a, d))

InitDebugSession(F(_, _)) ==
    /\ call = NoCall
    /\ \E program_de \in BOOLEAN :
        Call("init_debug_session", [NoArg EXCEPT !.b = program_de], FALSE,
             LAMBDA s : F(s, program_de))

ResetTarget(F(_)) ==
    /\ call = NoCall
    /\ Call("reset_target", NoArg, FALSE, F)

\* the caller takes the outcome of the call (its result or its exception)
Return ==
    /\ call # NoCall
    /\ call' = NoCall
    /\ UNCHANGED <<dbg, dev, tp, tcall, fn>>

(***************************************************************************)
(* TransportProxy: the batcher between the primitive executer and the      *)
(* transport. A method works on the record t: the object's fields content  *)
(* and length, the command lists it has handed to transport.execute        *)
(* (execs), the exception in flight (exc) and the value returned (ret).    *)
(***************************************************************************)
\* wire form of one block; the encoder is not part of this repository, a command is kept
\* as the block it was generated from
generate_bytestream(block) == [ati |-> block]

\* the transport answers every command it is handed
execute(commands) == [i \in 1..Len(commands) |-> [result_of |-> commands[i]]]

reset(t) == [t EXCEPT !.content = <<>>, !.length = 0]

\* _flush returning the response to the first command
_flush_first_result(t) ==
    LET commands == [i \in 1..Len(t.content) |-> generate_bytestream(t.content[i])] \o <<>>
        results == execute(commands)
        t1 == reset([t EXCEPT !.execs = Append(t.execs, commands)])
    IN  IF Len(results) = 0 THEN Raise(t1, "IndexError")
        ELSE [t1 EXCEPT !.ret = results[1]]

_flush(t) ==
    LET commands == [i \in 1..Len(t.content) |-> generate_bytestream(t.content[i])] \o <<>>
        results == execute(commands)
        t1 == reset([t EXCEPT !.execs = Append(t.execs, commands)])
    IN  IF Len(results) = 0 THEN Raise(t1, "IndexError")
        ELSE [t1 EXCEPT !.ret = results[Len(results)]]

\* send_block that flushes as soon as the frame would be full
send_block_at_capacity(t, content) ==
    LET t1 == IF t.length + Len(content) >= blocksize THEN _flush(t) ELSE t
    IN  IF t1.exc # NoExc THEN t1
        ELSE [t1 EXCEPT !.content = Append(t1.content, content),
                        !.length = t1.length + Len(content)]

send_block(t, content) ==
    LET t1 == IF t.length + Len(content) > blocksize THEN _flush(t) ELSE t
    IN  IF t1.exc # NoExc THEN t1
        ELSE [t1 EXCEPT !.content = Append(t1.content, content),
                        !.length = t1.length + Len(content)]

sync(t) == _flush(t)

\* TransportProxy.__init__
InitTp == reset([content |-> None, length |-> None])

NoTCall ==
    [op |-> "init", block |-> <<>>, pre |-> InitTp, execs |-> <<>>, exc |-> NoExc,
     ret |-> None, sent |-> <<>>, batches |-> <<>>, raised |-> FALSE]

TBegin ==
    [content |-> tp.content, length |-> tp.length, execs |-> <<>>, exc |-> NoExc,
     ret |-> None]

\* what has been sent and executed since the last sync
Period ==
    IF tcall.op \in {"init", "sync"}
    THEN [sent |-> <<>>, batches |-> <<>>, raised |-> FALSE]
    ELSE [sent |-> tcall.sent, batches |-> tcall.batches, raised |-> tcall.raised]

TCommit(op, block, t) ==
    /\ tp' = [content |-> t.content, length |-> t.length]
    /\ tcall' = [op |-> op, block |-> block, pre |-> tp, execs |-> t.execs,
                 exc |-> t.exc, ret |-> t.ret,
                 sent |-> IF op = "send_block" THEN Append(Period.sent, block)
                          ELSE Period.sent,
                 batches |-> Period.batches \o t.execs,
                 raised |-> Period.raised \/ t.exc # NoExc]
    /\ UNCHANGED <<dvars, fn>>

SendBlock(F(_, _)) ==
    /\ Len(Period.sent) < MaxSends
    /\ \E n \in 0..MaxBlock :
        LET content == Fill(n, Len(Period.sent) + 1) \o <<>>
        IN  TCommit("send_block", content, F(TBegin, content))

Sync(F(_)) ==
    \E t \in {F(TBegin)} :
        TCommit("sync", <<>>, t)

(***************************************************************************)
(* Functions without state: the variable fn holds one application, the     *)
(* function applied (op), its arguments (x bytes, a address, n byte count, *)
(* c command), what it returned (out) or raised (exc), and the byte array  *)
(* the chain of applications started from (orig).                          *)
(***************************************************************************)
NoFn ==
    [op |-> "none", x |-> <<>>, a |-> 0, n |-> 0, c |-> 0, out |-> <<>>, exc |-> NoExc,
     why |-> "", orig |-> <<>>, sent |-> 0, ret |-> 0]

CodecBytes == {0, 165}

RECURSIVE ByteArrays(_)
\* the byte arrays of length n
ByteArrays(n) ==
    IF n = 0 THEN {<<>>}
    ELSE {Append(s, b) : s \in ByteArrays(n - 1), b \in CodecBytes}

CodecInputs ==
    UNION {ByteArrays(n) : n \in 0..MaxCodecLen}
        \cup {[i \in 1..n |-> i] \o <<>> : n \in 1..MaxCodecLen}

FnInput(x) == [NoFn EXCEPT !.op = "input", !.x = x, !.out = x, !.orig = x]

Compact(F(_)) ==
    /\ fn.op = "input"
    /\ fn' = [fn EXCEPT !.op = "pic24_compact", !.x = fn.out, !.out = F(fn.out) \o <<>>]
    /\ UNCHANGED <<dvars, tvars>>

\* arguments of the command generators: where to read or write, and how many bytes
CommandAddresses == {0, 4, 16777216}

CommandLengths == {4 * k : k \in 0..MaxInstr} \cup {6, 4 * 32768, 4 * 32769}

FnCommandInput(a, n) == [NoFn EXCEPT !.op = "input_command", !.a = a, !.n = n]

Generated(op, c, r) ==
    /\ fn.op = "input_command"
    /\ fn' = [fn EXCEPT !.op = op, !.c = c, !.out = r.data \o <<>>, !.exc = r.exc]
    /\ UNCHANGED <<dvars, tvars>>

SanityCheckCommand(r) ==
    /\ fn.a = 0 /\ fn.n = 0
    /\ Generated("_sanity_check_proxy_command", PE_COMMAND_SCHECK, r)

GetPeVersionCommand(r) ==
    /\ fn.a = 0 /\ fn.n = 0
    /\ Generated("_get_pe_version_proxy_command", PE_COMMAND_QVER, r)

ReadFlashCommand(F(_, _)) ==
    /\ fn.op = "input_command"
    /\ Generated("_read_flash_proxy_command", PE_COMMAND_READP, F(fn.a, fn.n))

WriteFlashPageCommand(F(_, _)) ==
    /\ fn.op = "input_command"
    /\ fn.n <= 4 * MaxInstr
    /\ Generated("_write_flash_page_proxy_command", PE_COMMAND_PROGP, F(fn.a, fn.n))

\* applied to the length of a request, alone or after the read command was generated
\* for the same request
MemoryReadBytesExpected(F(_)) ==
    /\ fn.op \in {"input_command", "_read_flash_proxy_command"}
    /\ fn' = [fn EXCEPT !.op = IF fn.op = "input_command"
                                THEN "_memory_read_bytes_expected_from_pe"
                                ELSE "read_accounting",
                        !.ret = F(fn.n)]
    /\ UNCHANGED <<dvars, tvars>>

\* PE response packets: any status and echo, a length field that may or may not fit,
\* and a payload of distinct bytes
PEStatuses == {0, PE_STATUS_PASS, PE_STATUS_FAIL, PE_STATUS_NACK, 4, 15}

PECommands == {PE_COMMAND_READP, PE_COMMAND_PROGP}

PELengthFields == (0..MaxWords) \cup {258}

PEResponses ==
    {PEHeader(0, status, echo, words) \o [i \in 1..k |-> 16 * i + 1] :
        status \in PEStatuses, echo \in PECommands, words \in PELengthFields,
        k \in 0..MaxPayload}

FnResponseInput(cmd, databytes, response) ==
    [NoFn EXCEPT !.op = "input_response", !.c = cmd, !.n = databytes, !.x = response]

CheckPeResponse(F(_, _, _)) ==
    /\ fn.op = "input_response"
    /\ \E r \in {F(fn.c, fn.n, fn.x)} :
         fn' = [fn EXCEPT !.op = "_check_pe_response", !.out = r.data \o <<>>,
                          !.exc = r.exc, !.why = r.msg]
    /\ UNCHANGED <<dvars, tvars>>

\* commands of kind scr the tool was asked to run
CountSent(log, scr) == Cardinality({i \in 1..Len(log) : log[i].scr = scr})

ReadFlashByProxy(F(_, _, _)) ==
    /\ fn.op = "input_response"
    /\ fn.c = PE_COMMAND_READP
    /\ \E s \in {F(Begin(Replying(fn.x)), fn.a, fn.n)} :
         fn' = [fn EXCEPT !.op = "read_flash_by_proxy", !.out = s.data \o <<>>,
                          !.exc = s.exc, !.sent = CountSent(s.log, "pe_readp")]
    /\ UNCHANGED <<dvars, tvars>>

\* raw responses to a DE command: the command byte, a status, two more bytes; or cut short
DEStatuses == {0, 1, 128, 129, 130, 131, 132, 133, 134, 255}

DEResults ==
    {<<cmd, status, 0, 0>> : cmd \in {DE_COMMAND, DE_COMMAND_DATA_ONLY, 0}, status \in DEStatuses}
        \cup {<<>>, <<DE_COMMAND, 1>>}

\* a debugger, running (a = 1) or halted (a = 0), whose next DE command is answered by result
FnDEInput(running, result) ==
    [NoFn EXCEPT !.op = "input_de", !.a = IF running THEN 1 ELSE 0, !.x = result]

DEContext == [Begin(Replying(fn.x)) EXCEPT !.is_running = (fn.a = 1)]

DEDone(op, s) ==
    /\ fn' = [fn EXCEPT !.op = op, !.exc = s.exc, !.sent = Len(s.log),
                        !.ret = IF s.is_running THEN 1 ELSE 0]
    /\ UNCHANGED <<dvars, tvars>>

DebugWriteMemory(F(_, _, _, _)) ==
    /\ fn.op = "input_de"
    /\ \E data \in {<<>>, <<1, 2>>} :
         DEDone("debug_write_memory", F(DEContext, 4096, data, Len(data)))

DebugWriteEmulation(F(_, _, _, _)) ==
    /\ fn.op = "input_de"
    /\ \E data \in {<<>>, <<1, 2>>} :
         DEDone("debug_write_emulation", F(DEContext, 4096, data, Len(data)))

Run(F(_)) ==
    /\ fn.op = "input_de"
    /\ \E s \in {F(DEContext)} : DEDone("run", s)

Halt(F(_)) ==
    /\ fn.op = "input_de"
    /\ \E s \in {F(DEContext)} : DEDone("halt", s)

Step(F(_)) ==
    /\ fn.op = "input_de"
    /\ \E s \in {F(DEContext)} : DEDone("step", s)

\* a debugger, running or halted as fn.a says, during whose call the tool makes the
\* reply at position k bad (0: none)
SessionContext(k) == [Begin(Env(k, 1, 38, TRUE, "erased")) EXCEPT !.is_running = (fn.a = 1)]

DebugResetTarget(F(_)) ==
    /\ fn.op = "input_de"
    /\ \E k \in 0..2 : DEDone("reset_target", F(SessionContext(k)))

DebugInitSession(F(_, _)) ==
    /\ fn.op = "input_de"
    /\ \E k \in 0..1 : DEDone("init_debug_session", F(SessionContext(k), FALSE))

\* debug-mode flash reads: start addresses around the 16-bit word address boundary, and
\* lengths from nothing to several chunks
DebugReadStarts ==
    {0, 130396, 130400, 130404, 130800, 131056, 131064, 131070, 131071, 131072, 131076}

DebugReadLengths == {0, 4, 16, 64, 100, 672} \cup {896 * k : k \in 1..MaxDebugChunks}

\* a read of numbytes from byte_address during which the tool returns nothing for the
\* chunk at position fault (0: all chunks come back)
FnReadInput(byte_address, numbytes, fault) ==
    [NoFn EXCEPT !.op = "input_read", !.a = byte_address, !.n = numbytes, !.c = fault]

DebugReadFlash(F(_, _, _)) ==
    /\ fn.op = "input_read"
    /\ \E s \in {F(Begin(Env(fn.c, 1, 38, TRUE, "erased")), fn.a, fn.n)} :
         fn' = [fn EXCEPT !.op = "debug_read_flash",
                          !.out = [i \in 1..Len(s.log) |->
                                      [addr |-> s.log[i].addr, n |-> s.log[i].n]] \o <<>>,
                          !.orig = s.cmds \o <<>>,
                          !.exc = s.exc,
                          !.sent = Len(s.log),
                          !.ret = Len(s.data)]
    /\ UNCHANGED <<dvars, tvars>>

(***************************************************************************)
(* PythonScriptedPicDebugger._write_flash_block_overlapped, step by step.  *)
(* fn.x is the data still to send, fn.a the address of the next page,      *)
(* fn.n the chunk size, fn.c the buffer in use, fn.why the position in the *)
(* code, fn.sent and fn.ret the writes triggered and awaited so far.       *)
(***************************************************************************)
OverlappedLengths == {FLASH_WRITE_BYTES_PER_PAGE * k + r : k \in 0..MaxPages, r \in {0, 8}}

FnWriteInput(byte_address, data) ==
    [NoFn EXCEPT !.op = "input_write", !.a = byte_address, !.x = data, !.orig = data]

Event(ev, id, n) == [ev |-> ev, id |-> id, n |-> n]

write_data_buffer(f, data_buf_id, values) ==
    [f EXCEPT !.out = Append(f.out, Event("write_data_buffer", data_buf_id, Len(values)))]

trigger_write(f, data_buffer_id, byte_address, words) ==
    [f EXCEPT !.out = Append(f.out, Event("trigger_write", data_buffer_id, words)),
              !.sent = f.sent + 1]

\* wait_write_done returning without taking a response
wait_write_done_lost(f) == f

wait_write_done(f) ==
    [f EXCEPT !.out = Append(f.out, Event("wait_write_done", 0, 0)),
              !.ret = f.ret + 1]

\* a buffer id that is never flipped
data_buf_id_kept(data_buf_id) == data_buf_id

\* "Buffer ID flip"
data_buf_id_flip(data_buf_id) == (data_buf_id + 1) % 2

\* "Send first data first"
SendFirstData ==
    /\ fn.op = "input_write"
    /\ LET chunk_size == Min(FLASH_WRITE_BYTES_PER_PAGE, Len(fn.x))
           f == [fn EXCEPT !.op = "_write_flash_block_overlapped", !.n = chunk_size,
                           !.c = 0, !.why = "trigger"]
       IN  fn' = write_data_buffer(f, 0, Slice(fn.x, 1, chunk_size))
    /\ UNCHANGED <<dvars, tvars>>

\* "Start first page write" and "Trigger next", each with the shrinking of the data and
\* the test of the while loop that follow it
TriggerWrite ==
    /\ fn.op = "_write_flash_block_overlapped"
    /\ fn.why = "trigger"
    /\ LET data == Slice(fn.x, fn.n + 1, Len(fn.x))
           f == [fn EXCEPT !.x = data \o <<>>, !.a = fn.a + fn.n,
                           !.why = IF Len(data) > 0 THEN "buffer" ELSE "last_wait"]
       IN  fn' = trigger_write(f, fn.c, fn.a, fn.n \div 2)
    /\ UNCHANGED <<dvars, tvars>>

\* "Handle leftovers", "Buffer ID flip" and "Write next page's data"
WriteNextData ==
    /\ fn.op = "_write_flash_block_overlapped"
    /\ fn.why = "buffer"
    /\ LET chunk_size == Min(fn.n, Len(fn.x))
           data_buf_id == data_buf_id_flip(fn.c)
           f == [fn EXCEPT !.n = chunk_size, !.c = data_buf_id, !.why = "wait"]
       IN  fn' = write_data_buffer(f, data_buf_id, Slice(fn.x, 1, chunk_size))
    /\ UNCHANGED <<dvars, tvars>>

\* "Block while first one completes" and "Wait for last chunk"
WaitWriteDone(F(_)) ==
    /\ fn.op = "_write_flash_block_overlapped"
    /\ fn.why \in {"wait", "last_wait"}
    /\ fn' = F([fn EXCEPT !.why = IF fn.why = "wait" THEN "trigger" ELSE "returned"])
    /\ UNCHANGED <<dvars, tvars>>

(***************************************************************************)
(* PrimitiveFunctionAccumulatorExecuter: accumulate a block, execute it,   *)
(* read the data buffer back. The controller c holds the status the tool   *)
(* returns for a block, its data buffers, and the blocks executed.         *)
(***************************************************************************)
\* a tool that answers a block with status and leaves filled in its read buffer
Controller(status, filled) ==
    [status |-> status, filled |-> filled, source |-> <<>>, executed |-> 0,
     exc |-> NoExc, ret |-> <<>>]

execute_single_block(c) == [c EXCEPT !.executed = c.executed + 1]

read_data_buffer(c, bytes_to_read) ==
    Slice(c.filled, 1, Min(bytes_to_read, Len(c.filled)))

invoke_read(c, bytes_to_read) ==
    LET c1 == execute_single_block(c)
        statuscode == unpack_le32(c1.status)
    IN  IF statuscode # 0 THEN [c1 EXCEPT !.exc = "PrimitiveException"]
        ELSE [c1 EXCEPT !.ret = read_data_buffer(c1, bytes_to_read)]

invoke_write_read(c, data_to_write, bytes_to_read) ==
    LET c1 == execute_single_block([c EXCEPT !.source = data_to_write])
    IN  [c1 EXCEPT !.ret = read_data_buffer(c1, bytes_to_read)]

BlockStatuses ==
    {<<0, 0, 0, 0>>, <<1, 0, 0, 0>>, <<0, 1, 0, 0>>, <<0, 0, 1, 0>>, <<0, 0, 0, 64>>,
     <<255, 255, 255, 127>>}

FnBlockInput(status, filled, bytes_to_read) ==
    [NoFn EXCEPT !.op = "input_block", !.orig = status, !.x = filled, !.n = bytes_to_read]

Invoked(op, c) ==
    /\ fn' = [fn EXCEPT !.op = op, !.out = c.ret \o <<>>, !.exc = c.exc, !.sent = c.executed]
    /\ UNCHANGED <<dvars, tvars>>

InvokeRead(F(_, _)) ==
    /\ fn.op = "input_block"
    /\ \E c \in {F(Controller(fn.orig, fn.x), fn.n)} : Invoked("invoke_read", c)

InvokeWriteRead(F(_, _, _)) ==
    /\ fn.op = "input_block"
    /\ \E data_to_write \in {<<>>, <<3, 0, 16, 0>>} :
         Invoked("invoke_write_read", F(Controller(fn.orig, fn.x), data_to_write, fn.n))

(***************************************************************************)
(* PrimitiveFunctionDirectExecuter (immediate execution with batching). A  *)
(* method works on the record x: the executer proxy's _content and         *)
(* _result_accumulator together with the fields of its TransportProxy      *)
(* (content, length, execs, exc, ret).                                     *)
(***************************************************************************)
\* PrimitiveAccumulatorProxy.reset
executer_reset(x) == [x EXCEPT !._content = <<>>, !._tokens = <<>>]

\* PrimitiveExecuterProxy.new_element
new_element(x, element) ==
    IF x.exc # NoExc THEN x
    ELSE LET x1 == IF x._content # <<>>
                   THEN LET y == send_block(x, x._content[1])
                        IN  IF y.exc # NoExc THEN y ELSE executer_reset(y)
                   ELSE x
         IN  IF x1.exc # NoExc THEN x1
             ELSE [x1 EXCEPT !._content = Append(x1._content, <<element>>)]

\* PrimitiveAccumulatorProxy.append_byte
append_byte(x, value) ==
    IF x.exc # NoExc THEN x
    ELSE IF x._content = <<>> THEN Raise(x, "IndexError")
    ELSE LET last == Len(x._content)
         IN  [x EXCEPT !._content = SubSeq(x._content, 1, last - 1)
                                        \o <<Append(x._content[last], value % 256)>>]

\* PrimitiveExecuterProxy.sync
executer_sync(x, numbytes) ==
    IF x.exc # NoExc THEN x
    ELSE IF x._content # <<>>
    THEN LET x1 == send_block(x, x._content[1])
             x2 == IF x1.exc # NoExc THEN x1 ELSE sync(x1)
         IN  IF x2.exc # NoExc THEN x2
             ELSE executer_reset(
                    [x2 EXCEPT !._result_accumulator =
                        Append(x2._result_accumulator,
                               [result |-> x2.ret, numbytes |-> numbytes])])
    ELSE [x EXCEPT !.ret = 0]

\* finalise that leaves the pipe as it is
finalise_idle(x) == x

\* PrimitiveExecuterProxy.finalise
finalise(x) == executer_sync(x, 0)

\* PrimitiveExecuterProxy.__init__
InitExecuter ==
    [_content |-> <<>>, _tokens |-> <<>>, content |-> <<>>, length |-> 0]

\* the executer and its TransportProxy as the last step left them
ExecuterBegin ==
    [_content |-> fn.x._content, _tokens |-> fn.x._tokens,
     _result_accumulator |-> fn.accumulated,
     content |-> fn.x.content, length |-> fn.x.length,
     execs |-> <<>>, exc |-> NoExc, ret |-> None]

\* One step of an invocation: x is the executer after the step, generated the elements
\* the method has created so far, each with the bytes appended to it. A step that
\* raises ends the invocation.
DirectStep(op, phase, generated, x) ==
    /\ fn' = [op |-> op,
              phase |-> IF x.exc # NoExc THEN "raised" ELSE phase,
              n |-> IF phase = "running" THEN fn.n + 1 ELSE fn.n,
              calls |-> fn.calls,
              generated |-> generated,
              x |-> [_content |-> x._content, _tokens |-> x._tokens,
                     content |-> x.content, length |-> x.length],
              accumulated |-> x._result_accumulator,
              execs |-> fn.execs \o x.execs, exc |-> x.exc]
    /\ UNCHANGED <<dvars, tvars>>

\* PrimitiveFunctionDirectExecuter.invoke is called: the method starts to run
Invoke ==
    /\ fn.phase # "running"
    /\ fn.calls < MaxInvokes
    /\ fn' = [fn EXCEPT !.op = "invoke", !.phase = "running", !.n = 0,
                        !.calls = fn.calls + 1, !.generated = <<>>,
                        !.accumulated = <<>>, !.execs = <<>>, !.exc = NoExc]
    /\ UNCHANGED <<dvars, tvars>>

\* the method creates a primitive: the element made by its i-th call on the proxy is i
NewElement(F(_, _)) ==
    /\ fn.phase = "running"
    /\ fn.n < MaxOps
    /\ \E x \in {F(ExecuterBegin, fn.n + 1)} :
        DirectStep("new_element", "running",
                   IF x.exc # NoExc THEN fn.generated
                   ELSE Append(fn.generated, <<fn.n + 1>>), x)

\* the method appends an operand to the primitive it is building
AppendByte(F(_, _)) ==
    /\ fn.phase = "running"
    /\ fn.n < MaxOps
    /\ \E x \in {F(ExecuterBegin, fn.n + 1)} :
        DirectStep("append_byte", "running",
                   IF x.exc # NoExc \/ fn.generated = <<>> THEN fn.generated
                   ELSE SubSeq(fn.generated, 1, Len(fn.generated) - 1)
                            \o <<Append(fn.generated[Len(fn.generated)], fn.n + 1)>>, x)

\* the method reaches a sync point
SyncPoint(F(_, _)) ==
    /\ fn.phase = "running"
    /\ fn.n < MaxOps
    /\ \E numbytes \in {0, 2} :
        DirectStep("sync", "running", fn.generated, F(ExecuterBegin, numbytes))

\* the method returns and invoke finalises
InvokeReturn(F(_)) ==
    /\ fn.phase = "running"
    /\ \E x \in {F(ExecuterBegin)} :
        DirectStep("finalise", "returned", fn.generated, x)

(***************************************************************************)
(* ProvisioningFirmwareDriver (firmwareinterface.py). A line is the        *)
(* sequence of its characters, without the CR-LF that ends it; the serial  *)
(* port delivers a stream of lines and of timeouts (reads that return      *)
(* nothing), and nothing but timeouts once the stream is used up.          *)
(***************************************************************************)
Line(s) == [timeout |-> FALSE, s |-> s]

TimeoutRead == [timeout |-> TRUE, s |-> <<>>]

Str_OK == <<"O", "K">>

Str_ERROR == <<"E", "R", "R", "O", "R">>

Str_ERROR_Timeout == <<"E", "R", "R", "O", "R", ":", " ", "T", "i", "m", "e", "o", "u", "t">>

Str_PONG == <<"M", "C", "+", "P", "O", "N", "G", "=">>

Digits == <<"0", "1", "2", "3", "4", "5", "6", "7", "8", "9">>

\* str.startswith
startswith(s, prefix) ==
    /\ Len(s) >= Len(prefix)
    /\ \A i \in 1..Len(prefix) : s[i] = prefix[i]

\* sub in s
contains(s, sub) ==
    \E k \in 0..(Len(s) - Len(sub)) : \A i \in 1..Len(sub) : s[k + i] = sub[i]

\* str.find as a position from 0, -1 when c is not in s
find(s, c) ==
    IF \E i \in 1..Len(s) : s[i] = c
    THEN (CHOOSE i \in 1..Len(s) : s[i] = c /\ \A j \in 1..(i - 1) : s[j] # c) - 1
    ELSE -1

DigitValue(c) == (CHOOSE d \in 1..10 : Digits[d] = c) - 1

RECURSIVE DecimalValue(_, _)
DecimalValue(s, n) == IF n = 0 THEN 0 ELSE 10 * DecimalValue(s, n - 1) + DigitValue(s[n])

\* int(s, base=10) for the texts the stream holds: digits give a number, the empty text
\* and any other character a ValueError
int(s) ==
    IF Len(s) > 0 /\ \A i \in 1..Len(s) : \E d \in 1..10 : Digits[d] = s[i]
    THEN [exc |-> NoExc, value |-> DecimalValue(s, Len(s))]
    ELSE [exc |-> "ValueError", value |-> 0]

\* serial_connection.in_waiting is not zero
in_waiting(d) == Len(d.stream) > 0 /\ ~d.stream[1].timeout

RECURSIVE read_response_lines(_, _)
\* read_response: [lines |-> the response, stream |-> what the port still holds]
read_response_lines(stream, lines) ==
    IF Len(stream) = 0 \/ stream[1].timeout
    THEN [lines |-> Append(lines, Str_ERROR_Timeout),
          stream |-> IF Len(stream) = 0 THEN stream ELSE Tail(stream)]
    ELSE LET line == stream[1].s
         IN  IF Len(line) = 0 THEN read_response_lines(Tail(stream), lines)
             ELSE IF startswith(line, Str_OK) \/ contains(line, Str_ERROR)
             THEN [lines |-> Append(lines, line), stream |-> Tail(stream)]
             ELSE read_response_lines(Tail(stream), Append(lines, line))

read_response(d) == read_response_lines(d.stream, <<>>)

\* the for loop over response[:-1]: the first line that starts with MC+PONG=, or else
\* the last line looked at, which the loop variable keeps
PongOf(response) ==
    LET n == Len(response) - 1
    IN  IF \E i \in 1..n : startswith(response[i], Str_PONG)
        THEN response[CHOOSE i \in 1..n : /\ startswith(response[i], Str_PONG)
                                          /\ \A j \in 1..(i - 1) : ~startswith(response[j], Str_PONG)]
        ELSE response[n]

SendPing(d) ==
    [d EXCEPT !.pings = Append(d.pings, d.sequence_number)]

\* "response = self.read_response()": the first statement of a pass of the while loop
receive_response(d) ==
    LET r == read_response(d)
    IN  [d EXCEPT !.stream = r.stream, !.response = r.lines, !.pc = "received"]

\* the rest of a pass, re-sending the ping however often the read has timed out
handle_response_no_limit(d) ==
    LET last == d.response[Len(d.response)]
    IN  IF last = Str_ERROR_Timeout /\ ~in_waiting(d)
        THEN SendPing([d EXCEPT !.sequence_number = d.sequence_number + 1,
                                !.retries = d.retries + 1,
                                !.timeout = d.timeout + 1, !.pc = "loop"])
        ELSE IF last # Str_OK THEN [d EXCEPT !.pc = "loop"]
        ELSE [d EXCEPT !.pong = IF Len(d.response) > 1 THEN PongOf(d.response) ELSE <<>>,
                       !.pc = "pong"]

\* a pass of the while loop of synchronize from the test of the last line to the search
\* for the pong, with what follows the loop when the pass breaks out of it; pc tells
\* where the call stands
handle_response(d) ==
    LET response == d.response
        last == response[Len(response)]
    IN  IF last # Str_OK
        THEN IF last = Str_ERROR_Timeout /\ ~in_waiting(d)
             THEN LET d2 == [d EXCEPT !.sequence_number = d.sequence_number + 1,
                                      !.retries = d.retries + 1,
                                      !.timeout = d.timeout + 1, !.pc = "loop"]
                  IN  IF d2.retries > 3
                      THEN [d2 EXCEPT !.timeout = d2.saved_timeout,
                                      !.exc = "KitCommunicationError", !.pc = "raised"]
                      ELSE SendPing(d2)
             ELSE [d EXCEPT !.pc = "loop"]
        ELSE [d EXCEPT !.pong = IF Len(response) > 1 THEN PongOf(response) ELSE <<>>,
                       !.pc = "pong"]

\* "if pong:" and the rest of the pass
check_pong(d) ==
    LET pong == d.pong
        number == int(Slice(pong, find(pong, "=") + 2, Len(pong)))
    IN  IF Len(pong) > 0 /\ number.exc # NoExc
        THEN [d EXCEPT !.exc = number.exc, !.pc = "raised"]
        ELSE IF Len(pong) > 0 /\ number.value = d.sequence_number
        THEN [d EXCEPT !.timeout = d.saved_timeout, !.pc = "returned"]
        ELSE IF ~in_waiting(d)
        THEN [d EXCEPT !.timeout = d.saved_timeout, !.exc = "KitCommunicationError",
                       !.pc = "raised"]
        ELSE [d EXCEPT !.pc = "loop"]

\* one pass of the while loop of synchronize
synchronize_pass(d) ==
    LET d1 == handle_response(receive_response(d))
    IN  IF d1.pc = "pong" THEN check_pong(d1) ELSE d1

RECURSIVE synchronize_loop(_)
\* the while loop of synchronize and what follows it
synchronize_loop(d) ==
    LET d1 == synchronize_pass(d)
    IN  IF d1.pc = "loop" THEN synchronize_loop(d1) ELSE d1

\* synchronize up to the while loop: the sequence number is stepped, the timeout saved
\* and set to 1, and the first ping sent
synchronize_begin(d) ==
    SendPing([d EXCEPT !.sequence_number = d.sequence_number + 1,
                       !.saved_timeout = d.timeout, !.timeout = 1, !.retries = 0,
                       !.pc = "loop"])

synchronize(d) == synchronize_loop(synchronize_begin(d))

\* a driver that has sent sequence_number pings, on a port with the given timeout that
\* will deliver stream
Driver(sequence_number, timeout, stream) ==
    [sequence_number |-> sequence_number, timeout |-> timeout, saved_timeout |-> None,
     stream |-> stream, pings |-> <<>>, response |-> <<>>, pong |-> <<>>, retries |-> 0,
     exc |-> NoExc, pc |-> "called"]

FirmwareLines ==
    {TimeoutRead,
     Line(Str_OK),
     Line(<<"M", "C", "+", "P", "O", "N", "G", "=", "0", "0", "0", "0", "0", "1">>),
     Line(<<"M", "C", "+", "P", "O", "N", "G", "=", "0", "0", "0", "0", "0", "2">>),
     Line(<<"h", "e", "l", "l", "o">>),
     Line(<<"X", "=", "0", "0", "0", "0", "0", "1">>),
     Line(<<"E", "R", "R", "O", "R", ":", "0", "0", "0", "1">>)}

RECURSIVE Streams(_)
\* the streams of n lines
Streams(n) ==
    IF n = 0 THEN {<<>>}
    ELSE {Append(s, l) : s \in Streams(n - 1), l \in FirmwareLines}

\* the read timeout the serial port was opened with, in seconds
SerialTimeout == 5

FnSyncInput(sequence_number, stream) ==
    [NoFn EXCEPT !.op = "input_sync", !.a = sequence_number, !.x = stream]

\* fn.c is the number of the last ping sent, fn.ret the sequence number afterwards,
\* fn.out the last response read
Synchronize(F(_)) ==
    /\ fn.op = "input_sync"
    /\ \E d \in {F(Driver(fn.a, SerialTimeout, fn.x))} :
         fn' = [fn EXCEPT !.op = "synchronize", !.exc = d.exc, !.sent = Len(d.pings),
                          !.c = d.pings[Len(d.pings)], !.ret = d.sequence_number,
                          !.out = d.response \o <<>>]
    /\ UNCHANGED <<dvars, tvars>>

\* synchronize pass by pass: fn is the driver, with the sequence number and the timeout
\* it had when synchronize was called in field entry
SyncStep(entry, d) ==
    /\ fn' = [sequence_number |-> d.sequence_number, timeout |-> d.timeout,
              saved_timeout |-> d.saved_timeout, stream |-> d.stream, pings |-> d.pings,
              response |-> d.response, pong |-> d.pong, retries |-> d.retries,
              exc |-> d.exc, pc |-> d.pc, entry |-> entry]
    /\ UNCHANGED <<dvars, tvars>>

\* synchronize is called on a driver that has sent no ping or one, and the port will
\* deliver one of the streams
SynchronizeBegin(F(_)) ==
    /\ fn.pc = "called"
    /\ \E sequence_number \in {0, 1}, stream \in UNION {Streams(n) : n \in 0..MaxLines} :
        SyncStep([sequence_number |-> sequence_number, timeout |-> fn.timeout],
                 F(Driver(sequence_number, fn.timeout, stream)))

ReceiveResponse(F(_)) ==
    /\ fn.pc = "loop"
    /\ \E d \in {F(fn)} : SyncStep(fn.entry, d)

HandleResponse(F(_)) ==
    /\ fn.pc = "received"
    /\ \E d \in {F(fn)} : SyncStep(fn.entry, d)

CheckPong(F(_)) ==
    /\ fn.pc = "pong"
    /\ \E d \in {F(fn)} : SyncStep(fn.entry, d)

(***************************************************************************)
(* KitProgrammer (kitmanager.py): fn holds the object, the calls made on   *)
(* it, and the calls it made on its programmer backend.                    *)
(***************************************************************************)
\* self.last_used = None
NoHexfile == "None"

HexFiles == {"a.hex", "b.hex"}

\* KitProgrammer.__init__
InitKitProgrammer ==
    [op |-> "KitProgrammer", last_used |-> NoHexfile, backend |-> <<>>, calls |-> <<>>]

program_hexfile(k, filename) ==
    [k EXCEPT !.backend = Append(k.backend, [m |-> "program_hexfile", filename |-> filename])]

erase_target_device(k) ==
    [k EXCEPT !.backend = Append(k.backend, [m |-> "erase_target_device", filename |-> NoHexfile])]

program_application(k, hexfile, strategy) ==
    IF strategy = "cached" /\ k.last_used = hexfile THEN k
    ELSE program_hexfile(k, hexfile)

erase(k) == [erase_target_device(k) EXCEPT !.last_used = NoHexfile]

\* the call, with whether it reached the backend, added to the calls made
Called(k, m, hexfile, strategy) ==
    [k EXCEPT !.calls = Append(fn.calls, [m |-> m, hexfile |-> hexfile, strategy |-> strategy,
                                          reached |-> Len(k.backend) > Len(fn.backend)])]

ProgramApplication(F(_, _, _)) ==
    /\ fn.op = "KitProgrammer"
    /\ Len(fn.calls) < MaxCalls
    /\ \E hexfile \in HexFiles, strategy \in {"cached", "always"} :
         fn' = Called(F(fn, hexfile, strategy), "program_application", hexfile, strategy)
    /\ UNCHANGED <<dvars, tvars>>

Erase(F(_)) ==
    /\ fn.op = "KitProgrammer"
    /\ Len(fn.calls) < MaxCalls
    /\ fn' = Called(F(fn), "erase", NoHexfile, "")
    /\ UNCHANGED <<dvars, tvars>>

Decompact(F(_)) ==
    /\ fn.op \in {"input", "pic24_compact"}
    /\ fn' = [fn EXCEPT !.op = IF fn.op = "input" THEN "pic24_decompact" ELSE "round_trip",
                        !.x = fn.out, !.out = F(fn.out) \o <<>>]
    /\ UNCHANGED <<dvars, tvars>>

(***************************************************************************)
(* Specification of the debugger                                           *)
(***************************************************************************)
Init ==
    /\ dbg = InitDbg
    /\ call = NoCall
    /\ dev = "idle"
    /\ tp = InitTp
    /\ tcall = NoTCall
    /\ fn = NoFn

Next ==
    \/ SetProgramExec
    \/ SetDebugExec
    \/ EnterTmod(enter_tmod)
    \/ EnterTmodPe(enter_tmod_pe)
    \/ ExitTmod(exit_tmod)
    \/ StartProgrammingOperation(start_programming_operation)
    \/ EndOfOperations(end_of_operations)
    \/ ReadFlashMemory(read_flash_memory)
    \/ WriteFlashMemory(write_flash_memory)
    \/ InitDebugSession(init_debug_session)
    \/ ResetTarget(reset_target)
    \/ Return

Spec == Init /\ [][Next]_vars

(***************************************************************************)
(* The debugger as its clients drive it: executives are set, and flash is  *)
(* accessed and sessions are started and ended, but enter_tmod,            *)
(* enter_tmod_pe and exit_tmod are left to the debugger                    *)
(***************************************************************************)
NextSession ==
    \/ SetProgramExec
    \/ SetDebugExec
    \/ StartProgrammingOperation(start_programming_operation)
    \/ EndOfOperations(end_of_operations)
    \/ ReadFlashMemory(read_flash_memory)
    \/ WriteFlashMemory(write_flash_memory)
    \/ InitDebugSession(init_debug_session)
    \/ ResetTarget(reset_target)
    \/ Return

SpecSession == Init /\ [][NextSession]_vars

(***************************************************************************)
(* The batcher as the primitive executer drives it                         *)
(***************************************************************************)
NextTP ==
    \/ SendBlock(send_block)
    \/ Sync(sync)

SpecTP == Init /\ [][NextTP]_vars

(***************************************************************************)
(* The codec applied to byte arrays                                        *)
(***************************************************************************)
InitCodec ==
    /\ dbg = InitDbg
    /\ call = NoCall
    /\ dev = "idle"
    /\ tp = InitTp
    /\ tcall = NoTCall
    /\ fn \in {FnInput(x) : x \in CodecInputs}

NextCodec ==
    \/ Compact(pic24_compact)
    \/ Decompact(pic24_decompact)

SpecCodec == InitCodec /\ [][NextCodec]_vars

(***************************************************************************)
(* The Programming Executive protocol applied to its arguments             *)
(***************************************************************************)
InitPE ==
    /\ dbg = InitDbg
    /\ call = NoCall
    /\ dev = "idle"
    /\ tp = InitTp
    /\ tcall = NoTCall
    /\ fn \in {FnCommandInput(a, n) : a \in CommandAddresses, n \in CommandLengths}
            \cup {FnResponseInput(cmd, databytes, response) :
                    cmd \in PECommands, databytes \in 0..MaxDataBytes,
                    response \in PEResponses}

NextPE ==
    \/ SanityCheckCommand(_sanity_check_proxy_command)
    \/ GetPeVersionCommand(_get_pe_version_proxy_command)
    \/ ReadFlashCommand(_read_flash_proxy_command)
    \/ WriteFlashPageCommand(_write_flash_page_proxy_command)
    \/ MemoryReadBytesExpected(_memory_read_bytes_expected_from_pe)
    \/ CheckPeResponse(_check_pe_response)
    \/ ReadFlashByProxy(read_flash_by_proxy)

SpecPE == InitPE /\ [][NextPE]_vars

(***************************************************************************)
(* The write-class operations of a debug session applied to a DE response  *)
(***************************************************************************)
InitDE ==
    /\ dbg = InitDbg
    /\ call = NoCall
    /\ dev = "idle"
    /\ tp = InitTp
    /\ tcall = NoTCall
    /\ fn \in {FnDEInput(running, result) : running \in BOOLEAN, result \in DEResults}
            \cup {FnReadInput(byte_address, numbytes, fault) :
                    byte_address \in DebugReadStarts, numbytes \in DebugReadLengths,
                    fault \in 0..MaxDebugChunks}

NextDE ==
    \/ DebugWriteMemory(debug_write_memory)
    \/ DebugWriteEmulation(debug_write_emulation)
    \/ Run(run)
    \/ Halt(halt)
    \/ Step(step)
    \/ DebugResetTarget(reset_target)
    \/ DebugInitSession(init_debug_session)
    \/ DebugReadFlash(debug_read_flash)

SpecDE == InitDE /\ [][NextDE]_vars

(***************************************************************************)
(* The double-buffered flash write                                         *)
(***************************************************************************)
InitOverlapped ==
    /\ dbg = InitDbg
    /\ call = NoCall
    /\ dev = "idle"
    /\ tp = InitTp
    /\ tcall = NoTCall
    /\ fn \in {FnWriteInput(byte_address, Fill(n, 0)) :
                byte_address \in {0, FLASH_WRITE_BYTES_PER_PAGE}, n \in OverlappedLengths}

NextOverlapped ==
    \/ SendFirstData
    \/ TriggerWrite
    \/ WriteNextData
    \/ WaitWriteDone(wait_write_done)

SpecOverlapped == InitOverlapped /\ [][NextOverlapped]_vars

(***************************************************************************)
(* The accumulate-then-execute proxy applied to a block status             *)
(***************************************************************************)
InitAccumulator ==
    /\ dbg = InitDbg
    /\ call = NoCall
    /\ dev = "idle"
    /\ tp = InitTp
    /\ tcall = NoTCall
    /\ fn \in {FnBlockInput(status, [i \in 1..k |-> 16 * i] \o <<>>, bytes_to_read) :
                status \in BlockStatuses, k \in 0..MaxBuffer, bytes_to_read \in 0..MaxBuffer}

NextAccumulator ==
    \/ InvokeRead(invoke_read)
    \/ InvokeWriteRead(invoke_write_read)

SpecAccumulator == InitAccumulator /\ [][NextAccumulator]_vars

(***************************************************************************)
(* The direct executer running methods one after the other                 *)
(***************************************************************************)
InitDirect ==
    /\ dbg = InitDbg
    /\ call = NoCall
    /\ dev = "idle"
    /\ tp = InitTp
    /\ tcall = NoTCall
    /\ fn = [op |-> "init", phase |-> "init", n |-> 0, calls |-> 0, generated |-> <<>>,
             x |-> InitExecuter, accumulated |-> <<>>, execs |-> <<>>, exc |-> NoExc]

NextDirect ==
    \/ Invoke
    \/ NewElement(new_element)
    \/ AppendByte(append_byte)
    \/ SyncPoint(executer_sync)
    \/ InvokeReturn(finalise)

SpecDirect == InitDirect /\ [][NextDirect]_vars

(***************************************************************************)
(* Synchronizing with the provisioning firmware                            *)
(***************************************************************************)
InitSync ==
    /\ dbg = InitDbg
    /\ call = NoCall
    /\ dev = "idle"
    /\ tp = InitTp
    /\ tcall = NoTCall
    /\ fn \in {FnSyncInput(sequence_number, stream) :
                sequence_number \in {0, 1},
                stream \in UNION {Streams(n) : n \in 0..MaxLines}}

NextSync == Synchronize(synchronize)

SpecSync == InitSync /\ [][NextSync]_vars

(***************************************************************************)
(* One call of synchronize, pass by pass. Once called, synchronize is a    *)
(* thread that keeps running until it returns or raises, hence the         *)
(* fairness condition on the passes of its loop.                           *)
(***************************************************************************)
InitSyncSteps ==
    /\ dbg = InitDbg
    /\ call = NoCall
    /\ dev = "idle"
    /\ tp = InitTp
    /\ tcall = NoTCall
    /\ fn = Driver(0, SerialTimeout, <<>>)
                @@ [entry |-> [sequence_number |-> 0, timeout |-> SerialTimeout]]

NextSyncSteps ==
    \/ SynchronizeBegin(synchronize_begin)
    \/ ReceiveResponse(receive_response)
    \/ HandleResponse(handle_response)
    \/ CheckPong(check_pong)

SpecSyncSteps ==
    /\ InitSyncSteps
    /\ [][NextSyncSteps]_vars
    /\ WF_vars(ReceiveResponse(receive_response))
    /\ WF_vars(HandleResponse(handle_response))
    /\ WF_vars(CheckPong(check_pong))

(***************************************************************************)
(* Programming applications onto a kit                                     *)
(***************************************************************************)
InitKit ==
    /\ dbg = InitDbg
    /\ call = NoCall
    /\ dev = "idle"
    /\ tp = InitTp
    /\ tcall = NoTCall
    /\ fn = InitKitProgrammer

NextKit ==
    \/ ProgramApplication(program_application)
    \/ Erase(erase)

SpecKit == InitKit /\ [][NextKit]_vars

(***************************************************************************)
(* Properties of the mode state machine                                    *)
(***************************************************************************)
\* script of the i-th block the last call sent
Scr(i) == IF i >= 1 /\ i <= Len(call.log) THEN call.log[i].scr ELSE "none"

\* mode the device was in when the i-th block of the last call was sent
DevBefore(i) == DevFold(call.pre.dev, SubSeq(call.log, 1, i - 1), 1)

Sent(scr) == {i \in 1..Len(call.log) : call.log[i].scr = scr}

\* C1: after any sequence of calls, those that raise included, the flags _in_tmod and
\* _in_tmod_pe are never both true.
C1_ModeFlagsExclusive == ~(dbg.in_tmod /\ dbg.in_tmod_pe)

\* a call switched from TMOD to TMOD-PE, and a call that raised left one flag set
C1_Witness ==
    /\ call.op = "write_flash_memory"
    /\ call.exc # NoExc
    /\ call.pre.in_tmod
    /\ dbg.in_tmod_pe

\* C2: enter_tmod_pe called while TMOD is active sends exit-TMOD before set-speed-PE and
\* enter-TMOD-PE, enter_tmod called while TMOD-PE is active sends exit-TMOD before
\* set-speed and enter-TMOD, and no call sends the enter scripts of one mode while the
\* flag of the other mode is set.
C2_ExitBeforeEnter ==
    /\ (call.op = "enter_tmod_pe" /\ call.pre.in_tmod)
            => (Scr(1) = "exit_tmod" /\ Scr(2) = "set_speed_pe" /\ Scr(3) = "enter_tmod_pe")
    /\ (call.op = "enter_tmod" /\ call.pre.in_tmod_pe)
            => (Scr(1) = "exit_tmod" /\ Scr(2) = "set_speed" /\ Scr(3) = "enter_tmod")
    /\ \A i \in 1..Len(call.log) :
            /\ call.log[i].scr \in {"set_speed_pe", "enter_tmod_pe"} => ~call.log[i].tmod
            /\ call.log[i].scr \in {"set_speed", "enter_tmod"} => ~call.log[i].pe

C2_Witness ==
    /\ call.op = "enter_tmod_pe"
    /\ call.pre.in_tmod
    /\ dbg.in_tmod_pe

\* C3: an enter-TMOD or enter-TMOD-PE script reaches the device only when the device is
\* in neither mode, every earlier enter script having been followed by exit-TMOD or
\* enter-debug.
C3_DeviceExitThenEnter ==
    \A i \in Sent("enter_tmod") \cup Sent("enter_tmod_pe") :
        DevBefore(i) \notin {"tmod", "tmod_pe"}

C5_Confirmed(i) ==
    LET enters == {k \in Sent("enter_tmod_pe") : k < i}
    IN  IF enters = {} THEN call.pre.in_tmod_pe
        ELSE LET m == CHOOSE k \in enters : \A j \in enters : j <= k
             IN  /\ Scr(m) = "enter_tmod_pe"
                 /\ Scr(m + 1) = "pe_scheck"
                 /\ Scr(m + 2) = "pe_qver"
                 /\ m + 2 < i

C5_PEOnlyWhenConfirmed ==
    /\ \A i \in Sent("pe_readp") \cup Sent("pe_progp") :
            call.log[i].pe /\ C5_Confirmed(i)
    /\ (call.op # "none" /\ dbg.in_tmod_pe) => C5_Confirmed(Len(call.log) + 1)

C5_Witness ==
    /\ call.op = "read_flash_memory"
    /\ call.exc = NoExc
    /\ Sent("pe_readp") # {}
    /\ Sent("enter_tmod_pe") # {}

\* the PE answered the probe of the last call
C6_Answered == \E j \in Sent("pe_qver") : j < Len(call.log) /\ call.log[j + 1].pe

\* the version start_programming_operation got from enter_tmod_pe, None when it got none
C6_Reported ==
    IF Sent("pe_scheck") # {}
    THEN (IF C6_Answered THEN call.target_pe ELSE None)
    ELSE IF call.pre.in_tmod_pe /\ (~call.arg.b \/ dbg.program_exec_version # None)
    THEN call.pre.current_pe_version
    ELSE None

\* a PE is alive on the target: it answered when asked, or it was not asked
C6_LivePE ==
    IF Sent("pe_scheck") # {} THEN C6_Answered
    ELSE call.pre.in_tmod_pe \/ call.target_pe # None

\* C6: start_programming_operation returns with use_pe true whenever the PE reports the
\* declared version, and whenever no version is declared, program_pe is false and a PE
\* reports any version; with program_pe true and no version declared the PE is not
\* asked and use_pe is true on return exactly if a PE image is set.
C6_SelectsPE ==
    (call.op = "start_programming_operation" /\ call.exc = NoExc)
        => /\ (/\ dbg.program_exec_version # None
               /\ C6_Reported # None
               /\ C6_Reported % 256 = dbg.program_exec_version % 256) => dbg.use_pe
           /\ (/\ dbg.program_exec_version = None
               /\ ~call.arg.b
               /\ C6_Reported # None) => dbg.use_pe
           /\ (dbg.program_exec_version = None /\ call.arg.b)
                => /\ Sent("pe_scheck") = {}
                   /\ dbg.use_pe <=> dbg.program_exec_address # None

C6_Witness ==
    /\ call.op = "start_programming_operation"
    /\ call.exc = NoExc
    /\ dbg.program_exec_version = None
    /\ ~call.arg.b
    /\ C6_Answered
    /\ dbg.use_pe

\* C6 as claimed: use_pe is true on return whenever the PE reports the declared version
\* and whenever no version is declared and a PE is alive on the target, for both values
\* of program_pe and with or without a PE image.
C6_AsClaimed ==
    (call.op = "start_programming_operation" /\ call.exc = NoExc)
        => /\ (/\ dbg.program_exec_version # None
               /\ C6_Reported # None
               /\ C6_Reported % 256 = dbg.program_exec_version % 256) => dbg.use_pe
           /\ (dbg.program_exec_version = None /\ C6_LivePE) => dbg.use_pe

\* C7: when the PE image fails the re-verify that follows its erase and rewrite,
\* start_programming_operation raises and leaves use_pe false; and while use_pe is
\* false no call other than start_programming_operation sets it or sends the PE a
\* command, so flash is read and written on the raw path.
C7_FailedPEMeansRaw ==
    /\ (/\ call.op = "start_programming_operation"
        /\ Len(call.verifies) = 2
        /\ ~call.verifies[2]) => (call.exc # NoExc /\ ~dbg.use_pe)
    /\ (/\ call.op \notin {"none", "start_programming_operation"}
        /\ ~call.pre.use_pe)
            => /\ ~dbg.use_pe
               /\ call.op \in {"read_flash_memory", "write_flash_memory"}
                    => \A i \in 1..Len(call.log) :
                            call.log[i].scr \in {"read_flash", "write_flash_page"}

C7_Witness ==
    /\ call.op = "start_programming_operation"
    /\ call.verifies = <<FALSE, FALSE>>
    /\ call.exc = "Exception"
    /\ ~dbg.use_pe

\* C8: init_debug_session with a DE image set sends no erase and no flash write before it
\* has read the DE region back; with program_de it reads the region back before it sends
\* enter-debug, and if the read-back equals the image it sends no erase and no flash
\* write at all.
C8_VerifyBeforeWrite ==
    (call.op = "init_debug_session" /\ dbg.debug_exec_address # None)
        => LET reads == {i \in Sent("read_flash") :
                            call.log[i].addr = dbg.debug_exec_address}
               changes == Sent("erase_testmem_range") \cup Sent("write_flash_page")
                            \cup Sent("pe_progp")
           IN  /\ \A c \in changes : \E r \in reads : r < c
               /\ call.arg.b
                    => \A d \in Sent("enter_debug") : \E r \in reads : r < d
               /\ (call.verifies # <<>> /\ call.verifies[1])
                    => /\ changes = {}
                       /\ Len(call.verifies) = 1
                       /\ Cardinality(Sent("enter_debug")) = 1

C8_Witness ==
    /\ call.op = "init_debug_session"
    /\ call.arg.b
    /\ call.verifies = <<TRUE>>
    /\ call.exc = NoExc
    /\ Sent("enter_debug") # {}

\* C9: when the read-back of the DE image (init_debug_session) or of the PE image
\* (start_programming_operation) does not match, the call sends one erase, then one
\* rewrite, then verifies once more, and nothing of that a second time; if the second
\* verify fails the call raises, and init_debug_session does not send enter-debug.
C9_RecoveryOnce ==
    (call.op \in {"init_debug_session", "start_programming_operation"})
        => /\ Len(call.verifies) <= 2
           /\ (call.verifies # <<>> /\ ~call.verifies[1])
                => /\ Len(call.verifies) = 2
                   /\ Cardinality(Sent("erase_testmem_range")) = 1
                   /\ Cardinality(Sent("write_flash_page")) = 1
                   /\ Cardinality(Sent("read_flash")) = 2
                   /\ \A e \in Sent("erase_testmem_range"), w \in Sent("write_flash_page") :
                        /\ e < w
                        /\ \E r1, r2 \in Sent("read_flash") : r1 < e /\ w < r2
                   /\ ~call.verifies[2]
                        => /\ call.exc = "Exception"
                           /\ Sent("enter_debug") = {}

C9_Witness ==
    /\ call.op = "init_debug_session"
    /\ call.verifies = <<FALSE, FALSE>>
    /\ call.exc = "Exception"

(***************************************************************************)
(* Properties of the batcher                                               *)
(***************************************************************************)
TPCommands(blocks) == [i \in 1..Len(blocks) |-> generate_bytestream(blocks[i])]

RECURSIVE TPSize(_, _)
\* cumulative size of the first n blocks
TPSize(blocks, n) == IF n = 0 THEN 0 ELSE TPSize(blocks, n - 1) + Len(blocks[n])

RECURSIVE TPExceeds(_, _, _)
\* how often, from block i on, the running size plus the size of the next block exceeds
\* the capacity, the running size starting again with that block
TPExceeds(blocks, i, size) ==
    IF i > Len(blocks) THEN 0
    ELSE IF size + Len(blocks[i]) > blocksize
    THEN 1 + TPExceeds(blocks, i + 1, Len(blocks[i]))
    ELSE TPExceeds(blocks, i + 1, size + Len(blocks[i]))

\* number of leading blocks that fit the capacity together
TPFit(blocks) ==
    CHOOSE n \in 0..Len(blocks) :
        /\ TPSize(blocks, n) <= blocksize
        /\ n < Len(blocks) => TPSize(blocks, n + 1) > blocksize

\* C10: send_block hands the pending blocks to the transport exactly when running size
\* plus size of the new block exceeds the capacity, and the new block is not among them
\* but appended afterwards; when the blocks sent up to a sync exceed the capacity exactly
\* once, the transport has executed exactly two command lists at the sync, the first
\* holding the commands of exactly the blocks that fit, the second those of the rest.
C10_FlushWhenFull ==
    /\ tcall.op = "send_block"
        => LET over == tcall.pre.length + Len(tcall.block) > blocksize
           IN  /\ (tcall.execs # <<>>) <=> over
               /\ over => tcall.execs = <<TPCommands(tcall.pre.content)>>
               /\ tcall.exc = NoExc
                    => /\ tp.content = (IF over THEN <<>> ELSE tcall.pre.content)
                                            \o <<tcall.block>>
                       /\ tp.length = (IF over THEN 0 ELSE tcall.pre.length)
                                            + Len(tcall.block)
    /\ (tcall.op = "sync" /\ TPExceeds(tcall.sent, 1, 0) = 1)
        => LET fit == TPFit(tcall.sent)
           IN  /\ Len(tcall.batches) = 2
               /\ tcall.batches[1] = TPCommands(SubSeq(tcall.sent, 1, fit))
               /\ ~tcall.raised
                    => tcall.batches[2]
                            = TPCommands(SubSeq(tcall.sent, fit + 1, Len(tcall.sent)))

C10_Witness ==
    /\ tcall.op = "sync"
    /\ ~tcall.raised
    /\ TPExceeds(tcall.sent, 1, 0) = 1
    /\ Len(tcall.batches) = 2
    /\ Len(tcall.batches[1]) >= 2
    /\ Len(tcall.batches[2]) >= 2

\* C11: after every send_block and every sync, for blocks of any size, length equals the
\* sum of the sizes of the blocks in content and is at most the capacity.
C11_LengthBounded ==
    /\ tp.length = TPSize(tp.content, Len(tp.content))
    /\ tp.length <= blocksize

\* C12: sync hands the pending blocks to the transport whatever the running size, leaves
\* no pending block and running size 0, and when a block was pending it returns the
\* transport's response to the last one.
C12_SyncFlushesAll ==
    tcall.op = "sync"
        => /\ tcall.execs = <<TPCommands(tcall.pre.content)>>
           /\ tp.content = <<>>
           /\ tp.length = 0
           /\ tcall.pre.content # <<>>
                => /\ tcall.exc = NoExc
                   /\ tcall.ret = [result_of |->
                        generate_bytestream(tcall.pre.content[Len(tcall.pre.content)])]

C12_Witness ==
    /\ tcall.op = "sync"
    /\ tcall.exc = NoExc
    /\ Len(tcall.pre.content) >= 2
    /\ tcall.pre.length < blocksize
    /\ tcall.pre.content[1] # tcall.pre.content[Len(tcall.pre.content)]

RECURSIVE TPConcat(_, _)
\* the commands of the first n execute calls, in order
TPConcat(batches, n) ==
    IF n = 0 THEN <<>> ELSE TPConcat(batches, n - 1) \o batches[n]

\* C13: the commands the transport has executed since the last sync, followed by those of
\* the pending blocks, are the commands of the blocks sent since then, each once and in
\* the order sent.
C13_ExactlyOnceInOrder ==
    tcall.op # "init"
        => TPConcat(tcall.batches, Len(tcall.batches)) \o TPCommands(tp.content)
                = TPCommands(tcall.sent)


(***************************************************************************)
(* Properties of the codec                                                 *)
(***************************************************************************)
\* x with the bytes at offsets 3 and 7 of every 8-byte group set to 0
ZeroPhantom(x) == [i \in 1..Len(x) |-> IF (i - 1) % 4 = 3 THEN 0 ELSE x[i]]

\* C14: pic24_decompact(pic24_compact(x)) is x zero-padded to the next multiple of 8
\* with the byte at offset 3 and the byte at offset 7 of every 8-byte group replaced by
\* 0; it is x itself exactly when the length of x is a multiple of 8 and those bytes of
\* x are 0.
C14_RoundTripZeroesPhantom ==
    fn.op = "round_trip"
        => /\ fn.out = ZeroPhantom(PadZero(fn.orig, 8))
           /\ fn.out = fn.orig
                <=> (Len(fn.orig) % 8 = 0 /\ ZeroPhantom(fn.orig) = fn.orig)

C14_Witness ==
    /\ fn.op = "round_trip"
    /\ Len(fn.orig) = 8
    /\ fn.orig[4] # 0
    /\ fn.out # fn.orig
    /\ fn.out[7] = fn.orig[7]
    /\ fn.out[7] # 0

\* C14 as claimed: pic24_decompact(pic24_compact(x)) is x when the length of x is a
\* multiple of 8, and x zero-padded to the next multiple of 8 otherwise.
C14_AsClaimed ==
    fn.op = "round_trip" => fn.out = PadZero(fn.orig, 8)

\* C15: pic24_compact zero-pads its input to a multiple of 8 bytes and turns every group
\* d0..d7 into d0, d1, d2, d6, d4, d5: N input bytes, N a multiple of 8, give 3N/4 bytes.
C15_CompactLayout ==
    fn.op = "pic24_compact"
        => LET d == PadZero(fn.x, 8)
           IN  /\ Len(fn.x) % 8 = 0 => 4 * Len(fn.out) = 3 * Len(fn.x)
               /\ 4 * Len(fn.out) = 3 * Len(d)
               /\ \A g \in 0..((Len(d) \div 8) - 1) :
                    SubSeq(fn.out, 6 * g + 1, 6 * g + 6)
                        = <<d[8 * g + 1], d[8 * g + 2], d[8 * g + 3],
                            d[8 * g + 7], d[8 * g + 5], d[8 * g + 6]>>

C15_Witness ==
    /\ fn.op = "pic24_compact"
    /\ fn.x = <<1, 2, 3, 4, 5, 6, 7, 8>>
    /\ fn.out = <<1, 2, 3, 7, 5, 6>>


(***************************************************************************)
(* Properties of the Programming Executive protocol                        *)
(***************************************************************************)
PECommandOps ==
    {"_sanity_check_proxy_command", "_get_pe_version_proxy_command",
     "_read_flash_proxy_command", "_write_flash_page_proxy_command"}

Prims(p) == {i \in 1..Len(fn.out) : fn.out[i].p = p}

\* 16-bit payload words the PE returns for a read of n bytes
C16_PayloadWords ==
    IF fn.op # "_read_flash_proxy_command" THEN 0
    ELSE IF (fn.n \div 4) % 2 = 1 THEN 2 + ((3 * ((fn.n \div 4) - 1)) \div 2)
    ELSE (3 * (fn.n \div 4)) \div 2

\* C16: every generated PE command sequence starts with the command word, sends only
\* words up to one delay of 12 microseconds, which one handshake follows directly, and
\* after the handshake only receives words: two for the header and then the payload.
C16_CommandShape ==
    (fn.op \in PECommandOps /\ fn.exc = NoExc)
        => /\ fn.out[1].p = "send_word"
           /\ fn.out[1].v \div 4096 = fn.c
           /\ Cardinality(Prims("delay_us")) = 1
           /\ Cardinality(Prims("handshake")) = 1
           /\ \A d \in Prims("delay_us") :
                /\ fn.out[d].v = 12
                /\ d + 1 \in Prims("handshake")
                /\ \A i \in 1..(d - 1) : fn.out[i].p \in {"send_word", "send_word_buf"}
                /\ \A i \in (d + 2)..Len(fn.out) : fn.out[i].p = "receive_word"
                /\ Len(fn.out) = d + 1 + 2 + C16_PayloadWords

C16_Witness ==
    /\ fn.op = "_read_flash_proxy_command"
    /\ fn.exc = NoExc
    /\ fn.n = 12
    /\ Cardinality(Prims("receive_word")) = 7
    /\ Cardinality(Prims("send_word")) = 4


RespStatus == (fn.x[2] \div 16) % 16

RespEcho == fn.x[2] % 16

RespLengthBytes == 2 * (fn.x[3] + 256 * fn.x[4])

\* C17: a response whose command echo differs from the command is refused with a
\* protocol error and yields no data.
C17_EchoMismatchRaises ==
    (fn.op = "_check_pe_response" /\ RespEcho # fn.c)
        => (fn.exc = "PrimitiveException" /\ fn.out = <<>>)

C17_Witness ==
    /\ fn.op = "_check_pe_response"
    /\ RespStatus = PE_STATUS_PASS
    /\ RespEcho = PE_COMMAND_PROGP
    /\ fn.c = PE_COMMAND_READP
    /\ RespLengthBytes = 4 + ((3 * fn.n) \div 4)
    /\ fn.n = 8
    /\ Len(fn.x) = 10
    /\ fn.why = "Unexpected command echo in response"


\* C18: a response with status FAIL or NACK is refused with a protocol error whatever
\* its echo, length field and payload; no data is returned, and a read that got such a
\* response has sent its command once only.
C18_FailOrNackRaises ==
    (fn.op \in {"_check_pe_response", "read_flash_by_proxy"}
        /\ RespStatus \in {PE_STATUS_FAIL, PE_STATUS_NACK})
        => /\ fn.exc = "PrimitiveException"
           /\ fn.out = <<>>
           /\ fn.op = "_check_pe_response" => fn.why = "PE command faild"
           /\ fn.op = "read_flash_by_proxy" => fn.sent = 1

C18_Witness ==
    /\ fn.op = "read_flash_by_proxy"
    /\ RespStatus = PE_STATUS_NACK
    /\ RespEcho = PE_COMMAND_READP
    /\ fn.n = 8
    /\ RespLengthBytes = 10
    /\ Len(fn.x) = 10
    /\ fn.exc = "PrimitiveException"
    /\ fn.sent = 1


\* the status and the echo of the response let it through to the length test
RespReachesLengthCheck ==
    /\ fn.op = "_check_pe_response"
    /\ RespStatus \notin {PE_STATUS_FAIL, PE_STATUS_NACK}
    /\ RespEcho = fn.c

\* C19: the length field, doubled to bytes, has to equal 4 + floor(3*payloadBytes/4):
\* a response with another length is refused, at the length test when it gets there,
\* and a response with that length is not refused by the length test.
C19_LengthIsFloor ==
    fn.op = "_check_pe_response"
        => /\ RespLengthBytes # 4 + ((3 * fn.n) \div 4) => fn.exc = "PrimitiveException"
           /\ RespReachesLengthCheck =>
                (fn.why = "Unexpected number of bytes returned"
                    <=> RespLengthBytes # 4 + ((3 * fn.n) \div 4))

C19_Witness ==
    /\ RespReachesLengthCheck
    /\ fn.n = 2
    /\ RespLengthBytes = 6
    /\ fn.why = "Unexpected number of bytes returned"

\* C19 as stated, with the ceiling
C19_AsClaimed ==
    fn.op = "_check_pe_response"
        => /\ RespLengthBytes # 4 + ((3 * fn.n + 3) \div 4) => fn.exc = "PrimitiveException"
           /\ (RespReachesLengthCheck /\ RespLengthBytes = 4 + ((3 * fn.n + 3) \div 4))
                => fn.why # "Unexpected number of bytes returned"


\* the response to a read of fn.n bytes is a PASS packet echoing the read command,
\* with the length field counting the words it holds and a payload of the size the
\* PE returns for that many instruction words
C20_WellFormed ==
    /\ fn.op = "read_flash_by_proxy"
    /\ fn.n % 4 = 0
    /\ fn.n \div 4 \in 1..32768
    /\ RespStatus = PE_STATUS_PASS
    /\ RespEcho = PE_COMMAND_READP
    /\ RespLengthBytes = Len(fn.x)
    /\ Len(fn.x) = _memory_read_bytes_expected_from_pe(fn.n)

\* C20: a read of N instruction words that gets a well-formed PASS response returns
\* the 4*N bytes the codec unpacks from the payload, without raising.
C20_ReadReturnsUnpacked ==
    C20_WellFormed
        => /\ fn.exc = NoExc
           /\ Len(fn.out) = fn.n
           /\ fn.out = pic24_decompact(Slice(fn.x, 5, Len(fn.x)))

\* the same for an even number of instruction words
C20_EvenReadReturnsUnpacked ==
    (C20_WellFormed /\ (fn.n \div 4) % 2 = 0)
        => /\ fn.exc = NoExc
           /\ Len(fn.out) = fn.n
           /\ fn.out = pic24_decompact(Slice(fn.x, 5, Len(fn.x)))

C20_EvenWitness ==
    /\ C20_WellFormed
    /\ fn.n = 8
    /\ fn.exc = NoExc
    /\ fn.out = <<17, 33, 49, 0, 81, 97, 65, 0>>


\* instruction words of the request
ReqWords == fn.n \div 4

ReadBytesComputed ==
    /\ fn.op \in {"_memory_read_bytes_expected_from_pe", "read_accounting"}
    /\ fn.n % 4 = 0
    /\ ReqWords \in {1, 2, 3, 4, 5, 32768}

\* C21: for a read of N instruction words the host expects 4 header bytes and the packed
\* payload: 4 + 3*N bytes when N is even, and 8 + 3*(N-1) bytes when N is odd.
C21_ExpectedBytes ==
    ReadBytesComputed
        => fn.ret = IF ReqWords % 2 = 0 THEN 4 + 3 * ReqWords ELSE 8 + 3 * (ReqWords - 1)

C21_Witness ==
    /\ fn.op = "_memory_read_bytes_expected_from_pe"
    /\ ReqWords = 32768
    /\ fn.ret = 98308

\* C21 as stated: 4 + 3*N/2 for an even N and 2 + 3*(N-1)/2 for an odd N
C21_AsClaimed ==
    ReadBytesComputed
        => fn.ret = IF ReqWords % 2 = 0 THEN 4 + ((3 * ReqWords) \div 2)
                    ELSE 2 + ((3 * (ReqWords - 1)) \div 2)

\* C22: the bytes the host expects for a read of N instruction words are twice the
\* receive-word primitives the read command generated for the same request holds.
C22_AccountingMirrorsCommand ==
    (fn.op = "read_accounting" /\ fn.n % 4 = 0 /\ ReqWords \in 1..32768)
        => fn.ret = 2 * Cardinality(Prims("receive_word"))

C22_Witness ==
    /\ fn.op = "read_accounting"
    /\ ReqWords = 3
    /\ fn.ret = 14
    /\ Cardinality(Prims("receive_word")) = 7


DEWriteOps == {"debug_write_memory", "debug_write_emulation", "run", "halt", "step"}

\* C23: a write-class DE operation whose command was answered with a nonzero status
\* raises, having sent the command once, and leaves the run state as it was.
C23_NonzeroStatusRaises ==
    (fn.op \in DEWriteOps /\ fn.sent > 0 /\ Len(fn.x) = 4 /\ fn.x[2] # 0)
        => (fn.exc # NoExc /\ fn.sent = 1 /\ fn.ret = fn.a)

\* the five handshake and transfer timeouts are refused
C23_TimeoutStatusRaises ==
    (fn.op \in DEWriteOps /\ fn.sent > 0 /\ Len(fn.x) = 4
        /\ fn.x[1] \in {DE_COMMAND, DE_COMMAND_DATA_ONLY} /\ fn.x[2] \in 129..133)
        => (fn.exc = "Exception" /\ fn.sent = 1 /\ fn.ret = fn.a)

C23_TimeoutWitness ==
    /\ fn.op = "run"
    /\ fn.x = <<DE_COMMAND, 131, 0, 0>>
    /\ fn.exc = "Exception"
    /\ fn.ret = 0


\* first byte address after the instruction words that n packed bytes hold from addr on
ChunkEnd(addr, n) == addr + ((4 * n + 2) \div 3)

\* C24: no chunk requested by debug_read_flash starts below byte address 0x20000 and
\* ends above it, and the read of 0x40 bytes from 0x1FFF0 is requested as two chunks,
\* the first ending at 0x20000 and the second starting there.
C24_NoChunkAcrossBoundary ==
    fn.op = "debug_read_flash"
        => /\ \A i \in 1..Len(fn.out) :
                ~(fn.out[i].addr < 131072 /\ ChunkEnd(fn.out[i].addr, fn.out[i].n) > 131072)
           /\ (fn.a = 131056 /\ fn.n = 64 /\ fn.c = 0)
                => fn.out = <<[addr |-> 131056, n |-> 12], [addr |-> 131072, n |-> 36]>>

C24_Witness ==
    /\ fn.op = "debug_read_flash"
    /\ fn.a = 131056
    /\ fn.n = 64
    /\ Len(fn.out) = 2
    /\ ChunkEnd(fn.out[1].addr, fn.out[1].n) = 131072
    /\ fn.out[2].addr = 131072
    /\ fn.ret = 48


(***************************************************************************)
(* Properties of page writes                                               *)
(***************************************************************************)
\* positions in the log of the call where a page write was handed to the tool
PageWrites == {i \in 1..Len(call.log) : call.log[i].scr \in {"pe_progp", "write_flash_page"}}

\* C25: every page write a call hands to the tool, through the PE or raw, carries a
\* whole number of rows and at least one: a partial trailing chunk goes out filled up.
C25_WholeRowsOnly ==
    \A i \in PageWrites :
        /\ call.log[i].n > 0
        /\ call.log[i].n % FLASH_WRITE_BYTES_PER_PAGE = 0

C25_Witness ==
    /\ call.op = "write_flash_memory"
    /\ call.arg.n = ATI_CHUNK_SIZE + 8
    /\ Cardinality(PageWrites) = 2
    /\ \A i \in PageWrites : call.log[i].n = FLASH_WRITE_BYTES_PER_PAGE


\* one page of flash is being programmed
OnePage == call.op = "write_flash_memory" /\ call.arg.n = FLASH_WRITE_BYTES_PER_PAGE

\* C26: programming one page of 512 bytes hands no page write to the tool when all its
\* bytes are 0xFF, and exactly one when a byte differs and the call completes; a call
\* that raises has handed over one at most.
C26_BlankPageSkipped ==
    OnePage
        => /\ call.arg.b => PageWrites = {}
           /\ (~call.arg.b /\ call.exc = NoExc) => Cardinality(PageWrites) = 1
           /\ Cardinality(PageWrites) <= 1

C26_BlankWitness ==
    /\ OnePage
    /\ call.arg.b
    /\ call.exc = NoExc
    /\ call.pre.use_pe
    /\ PageWrites = {}


(***************************************************************************)
(* Properties of the double-buffered flash write                           *)
(***************************************************************************)
\* events of kind ev among the first n of the write
EventsBefore(ev, n) == Cardinality({i \in 1..n : fn.out[i].ev = ev})

\* C27: during _write_flash_block_overlapped at most one triggered page write has not
\* been awaited; when a write is triggered every earlier one has been awaited, and when
\* the operation has returned all have.
C27_OneWriteInFlight ==
    fn.op = "_write_flash_block_overlapped"
        => /\ fn.sent - fn.ret \in {0, 1}
           /\ \A i \in 1..Len(fn.out) :
                fn.out[i].ev = "trigger_write"
                    => EventsBefore("wait_write_done", i - 1)
                            = EventsBefore("trigger_write", i - 1)
           /\ fn.why = "returned" => fn.sent = fn.ret

C27_Witness ==
    /\ fn.op = "_write_flash_block_overlapped"
    /\ fn.why = "wait"
    /\ fn.sent = 2
    /\ fn.ret = 1
    /\ Len(fn.orig) = 3 * FLASH_WRITE_BYTES_PER_PAGE + 8


(***************************************************************************)
(* Properties of the accumulate-then-execute proxy                         *)
(***************************************************************************)
\* C28: when the executed block reports a nonzero status, invoke_read and
\* invoke_write_read raise, return no buffer data, and have executed the block once.
C28_NonzeroStatusRaises ==
    (fn.op \in {"invoke_read", "invoke_write_read"} /\ unpack_le32(fn.orig) # 0)
        => (fn.exc = "PrimitiveException" /\ fn.out = <<>> /\ fn.sent = 1)

\* the same for invoke_read alone
C28_InvokeReadRaises ==
    (fn.op = "invoke_read" /\ unpack_le32(fn.orig) # 0)
        => (fn.exc = "PrimitiveException" /\ fn.out = <<>> /\ fn.sent = 1)

C28_InvokeReadWitness ==
    /\ fn.op = "invoke_read"
    /\ fn.orig = <<0, 0, 0, 64>>
    /\ fn.n = 4
    /\ Len(fn.x) = 4
    /\ fn.exc = "PrimitiveException"


(***************************************************************************)
(* Properties of the synchronization with the firmware                     *)
(***************************************************************************)
\* the stream held a line MC+PONG=<digits> whose number is n
PongReceived(n) ==
    \E i \in 1..Len(fn.x) :
        /\ ~fn.x[i].timeout
        /\ startswith(fn.x[i].s, Str_PONG)
        /\ int(Slice(fn.x[i].s, Len(Str_PONG) + 1, Len(fn.x[i].s))) = [exc |-> NoExc, value |-> n]

\* C29: synchronize returns only when an MC+PONG with the number of the last ping sent
\* has come in, and otherwise raises KitCommunicationError and nothing else.
C29_SyncOnlyOnPong ==
    fn.op = "synchronize"
        => /\ fn.exc = NoExc => PongReceived(fn.c)
           /\ fn.exc # NoExc => fn.exc = "KitCommunicationError"

\* when synchronize returns, the sequence number is the number of the last ping sent
C29_NumberOfLastPing ==
    (fn.op = "synchronize" /\ fn.exc = NoExc) => (fn.ret = fn.c /\ fn.sent >= 1)

C29_PongWitness ==
    /\ fn.op = "synchronize"
    /\ fn.exc = NoExc
    /\ fn.a = 0
    /\ fn.sent = 2
    /\ PongReceived(2)


(***************************************************************************)
(* Properties of the KitProgrammer                                         *)
(***************************************************************************)
\* C30: when program_application is called with strategy 'cached' for the hex file of
\* the call just before it, the second call does not reach the programmer backend.
C30_SameHexfileProgrammedOnce ==
    \A i \in 1..(Len(fn.calls) - 1) :
        (/\ fn.calls[i].m = "program_application"
         /\ fn.calls[i + 1].m = "program_application"
         /\ fn.calls[i + 1].hexfile = fn.calls[i].hexfile
         /\ fn.calls[i + 1].strategy = "cached")
            => ~fn.calls[i + 1].reached

(***************************************************************************)
(* Properties of the mode a flash operation leaves                         *)
(***************************************************************************)
\* the call awaiting its caller is one of the three flash operations and returned normally
FlashOpReturned ==
    /\ call.op \in {"start_programming_operation", "read_flash_memory", "write_flash_memory"}
    /\ call.exc = NoExc

\* C31: when start_programming_operation, read_flash_memory or write_flash_memory has
\* returned normally and use_pe is set, raw TMOD is the active mode (_in_tmod true,
\* _in_tmod_pe false); start_programming_operation returns in raw TMOD also when
\* use_pe is not set.
C31_RawTmodAfterFlashOp ==
    (FlashOpReturned /\ (dbg.use_pe \/ call.op = "start_programming_operation"))
        => (dbg.in_tmod /\ ~dbg.in_tmod_pe)

\* a page was written through the PE, in TMOD-PE, and the call came back in raw TMOD
C31_Witness ==
    /\ call.op = "write_flash_memory"
    /\ call.exc = NoExc
    /\ dbg.use_pe
    /\ \E i \in 1..Len(call.log) : call.log[i].scr = "pe_progp" /\ call.log[i].pe
    /\ dbg.in_tmod
    /\ ~dbg.in_tmod_pe

(***************************************************************************)
(* Properties of the temporary change of use_pe                            *)
(***************************************************************************)
\* the call awaiting its caller ran init_debug_session, or _write_flash_chunk (which
\* only write_flash_memory reaches)
UsePeBorrowed == call.op \in {"init_debug_session", "write_flash_memory"}

\* C32: when init_debug_session or _write_flash_chunk is left, by a return or by an
\* exception, use_pe has the value it had when the call began.
C32_UsePeRestored == UsePeBorrowed => dbg.use_pe = call.pre.use_pe

\* C32, normal return only: a call that returns has put use_pe back.
C32_UsePeRestoredOnReturn ==
    (UsePeBorrowed /\ call.exc = NoExc) => dbg.use_pe = call.pre.use_pe

\* a page of the configuration region was written raw by a debugger that uses the PE
C32_ReturnWitness ==
    /\ call.op = "write_flash_memory"
    /\ call.exc = NoExc
    /\ call.pre.use_pe
    /\ dbg.use_pe
    /\ \E i \in 1..Len(call.log) :
            call.log[i].scr = "write_flash_page" /\ ~call.log[i].use_pe

(***************************************************************************)
(* Properties of immediate execution with batching                         *)
(***************************************************************************)
\* the blocks handed to transport.execute during the invocation, in order
Submitted == TPConcat(fn.execs, Len(fn.execs))

DirectReturned == fn.phase = "returned"

\* C33: when invoke of the direct executer returns, the executer's _content and the
\* TransportProxy's pending list are empty, and the transport has been handed every
\* element the method generated, each once and in the order generated.
C33_AllSubmittedOnReturn ==
    DirectReturned
        => /\ fn.x._content = <<>>
           /\ fn.x.content = <<>>
           /\ fn.x.length = 0
           /\ Submitted = [i \in 1..Len(fn.generated) |->
                              generate_bytestream(fn.generated[i])]

\* two elements that do not fit in one frame: the full frame is executed before the
\* second element is queued
C33_FullFrameReached ==
    /\ DirectReturned
    /\ fn.generated = <<<<1, 2, 3>>, <<4, 5>>>>
    /\ Len(fn.execs) = 2

\* a sync point after the first element, then two more elements: the sync executes
\* one batch and the end of invoke the other
C33_Witness ==
    /\ DirectReturned
    /\ fn.generated = <<<<1>>, <<3, 4>>, <<5>>>>
    /\ Len(fn.accumulated) = 2
    /\ Len(fn.execs) = 2
    /\ Len(Submitted) = 3
    /\ fn.x._content = <<>>
    /\ fn.x.content = <<>>

(***************************************************************************)
(* Properties of the status test of a PE response                          *)
(***************************************************************************)
\* C34: _check_pe_response returns data only for a response whose status nibble is
\* PASS; a response with any other status nibble is refused.
C34_OnlyPassAccepted ==
    (fn.op = "_check_pe_response" /\ fn.exc = NoExc) => RespStatus = PE_STATUS_PASS

\* C34, as far as the code goes: a response that is accepted has a status nibble other
\* than FAIL and NACK, the echo of the command and the length the payload calls for.
C34_AcceptedIsNotFailOrNack ==
    (fn.op = "_check_pe_response" /\ fn.exc = NoExc)
        => /\ RespStatus \notin {PE_STATUS_FAIL, PE_STATUS_NACK}
           /\ RespEcho = fn.c
           /\ RespLengthBytes = 4 + ((3 * fn.n) \div 4)

\* a response with status nibble 0 and a payload of eight bytes is taken as good
C34_UndefinedStatusAccepted ==
    /\ fn.op = "_check_pe_response"
    /\ fn.exc = NoExc
    /\ RespStatus = 0
    /\ fn.n = 8
    /\ Len(fn.out) = 8

(***************************************************************************)
(* Properties of the DE read-flash command                                 *)
(***************************************************************************)
\* the length parameter of a DE memory command: the number of packs to transfer
PackCount(de_command) == de_command[5] + 256 * de_command[6]

\* C35: for every chunk debug_read_flash requests, the pack count in the DE command
\* times the pack size of 12 bytes is the number of bytes the host reads back for it.
C35_PacksCoverChunk ==
    fn.op = "debug_read_flash"
        => \A i \in 1..Len(fn.out) :
                PackCount(fn.orig[i]) * de_read_flash_pack_size = fn.out[i].n

\* C35, as far as the code goes: the pack count is the chunk size divided by 12 and
\* rounded down, and the command carries the word address of the chunk.
C35_PackCountIsFloor ==
    fn.op = "debug_read_flash"
        => /\ Len(fn.orig) = Len(fn.out)
           /\ \A i \in 1..Len(fn.out) :
                /\ PackCount(fn.orig[i]) = fn.out[i].n \div de_read_flash_pack_size
                /\ unpack_le32(fn.orig[i]) = fn.out[i].addr \div 2

\* a read of 100 bytes is requested as one chunk of 75 bytes with a command for 6 packs
C35_ShortCommandReached ==
    /\ fn.op = "debug_read_flash"
    /\ fn.a = 0
    /\ fn.n = 100
    /\ fn.out = <<[addr |-> 0, n |-> 75]>>
    /\ PackCount(fn.orig[1]) = 6
    /\ fn.ret = 75

(***************************************************************************)
(* Properties of the result of debug_read_flash                            *)
(***************************************************************************)
\* C36: debug_read_flash comes to an end, and then it has either raised or returned
\* (numbytes*3)//4 bytes: it does not return less.
C36_FullOrError ==
    fn.op = "debug_read_flash" => (fn.exc # NoExc \/ fn.ret = (fn.n * 3) \div 4)

\* C36, as far as the code goes: the read never raises; it returns the chunks received
\* before the first empty one, which is all that was asked for when no chunk was empty.
C36_ReturnsChunksReceived ==
    fn.op = "debug_read_flash"
        => /\ fn.exc = NoExc
           /\ fn.ret <= (fn.n * 3) \div 4
           /\ (\A i \in 1..Len(fn.out) : fn.out[i].n > 0 /\ i # fn.c)
                    => fn.ret = (fn.n * 3) \div 4

\* the second of three chunks comes back empty: the read returns the first chunk only
C36_PartialReached ==
    /\ fn.op = "debug_read_flash"
    /\ fn.a = 0
    /\ fn.n = 1792
    /\ fn.c = 2
    /\ fn.sent = 2
    /\ fn.ret = 504
    /\ fn.exc = NoExc

(***************************************************************************)
(* Properties of the two data buffers of the overlapped write              *)
(***************************************************************************)
\* positions of the events of kind ev of the write
EventsOf(ev) == {i \in 1..Len(fn.out) : fn.out[i].ev = ev}

\* C37: in _write_flash_block_overlapped the buffer ids of successive write_data_buffer
\* calls alternate 0, 1, 0, 1, ...; each trigger_write names the buffer written last
\* before it; and a buffer is not written again after a trigger_write that names it
\* until that write has been awaited (the k-th wait_write_done awaits the k-th
\* trigger_write).
C37_BuffersAlternate ==
    fn.op = "_write_flash_block_overlapped"
        => /\ \A j \in EventsOf("write_data_buffer") :
                fn.out[j].id = EventsBefore("write_data_buffer", j - 1) % 2
           /\ \A i \in EventsOf("trigger_write") :
                /\ EventsBefore("write_data_buffer", i) > 0
                /\ \A j \in EventsOf("write_data_buffer") :
                     (j < i /\ \A k \in EventsOf("write_data_buffer") : k < i => k <= j)
                        => fn.out[j].id = fn.out[i].id
           /\ \A i \in EventsOf("trigger_write"), j \in EventsOf("write_data_buffer") :
                (i < j /\ fn.out[i].id = fn.out[j].id)
                    => EventsBefore("wait_write_done", j) >= EventsBefore("trigger_write", i)

\* the third page is staged in buffer 0 while the write of the second, from buffer 1,
\* is in flight
C37_Witness ==
    /\ fn.op = "_write_flash_block_overlapped"
    /\ fn.why = "wait"
    /\ fn.sent = 2
    /\ fn.ret = 1
    /\ Len(fn.out) = 6
    /\ fn.out[5] = Event("trigger_write", 1, FLASH_WRITE_BYTES_PER_PAGE \div 2)
    /\ fn.out[6] = Event("write_data_buffer", 0, FLASH_WRITE_BYTES_PER_PAGE)

(***************************************************************************)
(* Properties of run control                                               *)
(***************************************************************************)
\* the response drawn for the call is one _check_de_response raises on
DEResponseRefused ==
    \/ Len(fn.x) = 0
    \/ /\ fn.x[1] \in {DE_COMMAND, DE_COMMAND_DATA_ONLY}
       /\ (Len(fn.x) < 4 \/ fn.x[2] \in {129, 130, 131, 132, 133})

\* C38: run sends nothing while the target is recorded as running, halt sends nothing
\* while it is recorded as halted, step and reset_target send nothing while it is
\* recorded as running; run and halt change the recorded state only when their one
\* command has been sent and its response was not refused by the DE response check;
\* and after init_debug_session has returned the target is recorded as halted.
C38_RunControlGuarded ==
    /\ (fn.op \in {"run", "step", "reset_target"} /\ fn.a = 1)
            => (fn.sent = 0 /\ fn.ret = 1 /\ fn.exc = NoExc)
    /\ (fn.op = "halt" /\ fn.a = 0) => (fn.sent = 0 /\ fn.ret = 0 /\ fn.exc = NoExc)
    /\ (fn.op \in {"run", "halt"} /\ fn.ret # fn.a)
            => (fn.sent = 1 /\ fn.exc = NoExc /\ ~DEResponseRefused)
    /\ (fn.op \in {"run", "halt"} /\ fn.sent = 1 /\ fn.exc = NoExc) => fn.ret # fn.a
    /\ (fn.op = "step") => fn.ret = fn.a
    /\ (fn.op = "init_debug_session" /\ fn.exc = NoExc) => fn.ret = 0

\* run on a halted target whose command the DE refuses: the target stays halted
C38_Witness ==
    /\ fn.op = "run"
    /\ fn.a = 0
    /\ fn.x = <<DE_COMMAND, 129, 0, 0>>
    /\ fn.sent = 1
    /\ fn.exc = "Exception"
    /\ fn.ret = 0

\* reset_target on a running target does nothing
C38_ResetWhileRunning ==
    /\ fn.op = "reset_target"
    /\ fn.a = 1
    /\ fn.sent = 0
    /\ fn.ret = 1

\* init_debug_session called while the target is recorded as running records it halted
C38_InitRecordsHalted ==
    /\ fn.op = "init_debug_session"
    /\ fn.a = 1
    /\ fn.exc = NoExc
    /\ fn.ret = 0

(***************************************************************************)
(* Properties of the pings of one synchronize call                         *)
(***************************************************************************)
SyncEnded == fn.pc \in {"returned", "raised"}

\* at most four pings, numbered upwards from the number after the one the driver had
\* used last, and none re-sent without a read that timed out
C39_PingsBounded ==
    /\ Len(fn.pings) <= 4
    /\ \A i \in 1..Len(fn.pings) : fn.pings[i] = fn.entry.sequence_number + i
    /\ fn.pc # "called" => Len(fn.pings) = 1 + Min(fn.retries, 3)
    /\ fn.sequence_number >= fn.entry.sequence_number + Len(fn.pings)

\* C39: one call of synchronize sends at most four pings (the first, and at most three
\* more, each after a read that timed out with no input pending), each with a sequence
\* number greater than any the driver sent before, and the call comes to an end once
\* the port delivers nothing more.
C39_FewPingsAndTermination == []C39_PingsBounded /\ (fn.pc = "loop" ~> SyncEnded)

\* the target never answers: the call gives up after the fourth ping
C39_Witness ==
    /\ fn.pc = "raised"
    /\ fn.exc = "KitCommunicationError"
    /\ fn.entry.sequence_number = 1
    /\ fn.pings = <<2, 3, 4, 5>>
    /\ fn.retries = 4
    /\ fn.stream = <<>>

(***************************************************************************)
(* Properties of the serial timeout around synchronize                     *)
(***************************************************************************)
\* C40: when synchronize has ended, by return or by raise, the timeout of the serial
\* port equals the value it had when synchronize was called.
C40_TimeoutRestored == SyncEnded => fn.timeout = fn.entry.timeout

\* the timeout is restored on return and when KitCommunicationError is raised
C40_TimeoutRestoredUnlessValueError ==
    SyncEnded /\ fn.exc \in {NoExc, "KitCommunicationError"} =>
        fn.timeout = fn.entry.timeout

\* synchronize has returned after a timeout and a second ping, with the timeout restored
C40_ReturnReached ==
    /\ fn.pc = "returned"
    /\ fn.retries = 1
    /\ Len(fn.pings) = 2
    /\ fn.saved_timeout = SerialTimeout
    /\ fn.timeout = SerialTimeout

\* the line before OK is no pong, int raises, and the timeout is left at 1
C40_ValueErrorReached ==
    /\ fn.pc = "raised"
    /\ fn.exc = "ValueError"
    /\ fn.pong = <<"h", "e", "l", "l", "o">>
    /\ fn.entry.timeout = SerialTimeout
    /\ fn.timeout = 1

====
